---- MODULE Spec2Model ----
(***************************************************************************)
(* A model of gsheet-compare-sync: the reconciliation core of src/logic.py *)
(* (value normalisation, key-based diffing, colour audits).                *)
(*                                                                         *)
(* Text is modelled as a sequence of one-character strings, so that        *)
(* strip(), the regular expressions and the parsers act on characters.     *)
(* A number is the exact decimal [m, e] standing for m / 10^e.             *)
(* A colour channel is an integer number of thousandths (1.0 is 1000).     *)
(***************************************************************************)
EXTENDS Integers, Sequences, FiniteSets, TLC

VARIABLES s_h, s_r, t_h, t_r, key_h, included_h,
          s_formats, t_formats,
          result, reverse, error, color_report, color_diff_report,
          c1, c2, matched, matched_rev, pc,
          src_type, src_id, src_file, tgt_id, update_marker_col, base_color,
          src_values, tgt_values,
          value_updates, src_value_updates, tgt_color_reqs, src_color_reqs,
          requests, ops,
          client_op, outcomes, attempt, calls, sleeps, returned, raised,
          client_end,
          cell_val, normalized, renormalized,
          busy, client, cred_path

\* The form fields of the window, the two remote tables, and what the last
\* operation planned and asked of the client.
ui_vars == <<src_type, src_id, src_file, tgt_id, update_marker_col, base_color,
             src_values, tgt_values,
             value_updates, src_value_updates, tgt_color_reqs, src_color_reqs,
             requests, ops>>

\* One call of SheetsClient._retry_api.
retry_vars == <<client_op, outcomes, attempt, calls, sleeps, returned, raised,
                client_end>>

\* One call of normalize_cell, and a second one on what the first returned.
norm_vars == <<cell_val, normalized, renormalized>>

\* What _set_busy last set, the sheet client of the window and the
\* credentials field.
busy_vars == <<busy, client, cred_path>>

vars == <<s_h, s_r, t_h, t_r, key_h, included_h, s_formats, t_formats,
          result, reverse, error, color_report, color_diff_report,
          c1, c2, matched, matched_rev, pc, ui_vars, retry_vars, norm_vars,
          busy_vars>>

-----------------------------------------------------------------------------
(* Characters and strings                                                  *)

Digits == {"0", "1", "2", "3", "4", "5", "6", "7", "8", "9"}

Whitespace == {" "}

\* The code point of a character of the model's alphabet (Python ord()).
Ord(c) ==
    CASE c = " " -> 32 [] c = "$" -> 36 [] c = "(" -> 40 [] c = ")" -> 41
      [] c = "," -> 44 [] c = "-" -> 45 [] c = "." -> 46 [] c = "/" -> 47
      [] c = "0" -> 48 [] c = "1" -> 49 [] c = "2" -> 50 [] c = "3" -> 51
      [] c = "4" -> 52 [] c = "5" -> 53 [] c = "6" -> 54 [] c = "7" -> 55
      [] c = "8" -> 56 [] c = "9" -> 57 [] c = ":" -> 58
      [] c = "A" -> 65 [] c = "B" -> 66 [] c = "C" -> 67 [] c = "D" -> 68
      [] c = "E" -> 69 [] c = "F" -> 70 [] c = "G" -> 71 [] c = "H" -> 72
      [] c = "I" -> 73 [] c = "L" -> 76 [] c = "M" -> 77 [] c = "N" -> 78
      [] c = "O" -> 79 [] c = "R" -> 82 [] c = "S" -> 83 [] c = "T" -> 84
      [] c = "V" -> 86 [] c = "W" -> 87 [] c = "X" -> 88 [] c = "Z" -> 90
      [] c = "[" -> 91 [] c = "]" -> 93
      [] c = "a" -> 97 [] c = "b" -> 98 [] c = "c" -> 99 [] c = "d" -> 100
      [] c = "e" -> 101 [] c = "g" -> 103 [] c = "k" -> 107 [] c = "l" -> 108
      [] c = "n" -> 110 [] c = "o" -> 111 [] c = "p" -> 112 [] c = "r" -> 114
      [] c = "s" -> 115 [] c = "u" -> 117 [] c = "w" -> 119 [] c = "x" -> 120
      [] c = "y" -> 121

\* Python's s1 < s2 on str: lexicographic by code point.
RECURSIVE StrLess(_, _)
StrLess(a, b) ==
    IF b = <<>> THEN FALSE
    ELSE IF a = <<>> THEN TRUE
    ELSE IF a[1] = b[1] THEN StrLess(Tail(a), Tail(b))
    ELSE Ord(a[1]) < Ord(b[1])

\* str.lstrip() and str.strip() with no argument.
RECURSIVE LStrip(_)
LStrip(s) == IF s # <<>> /\ s[1] \in Whitespace THEN LStrip(Tail(s)) ELSE s

RECURSIVE RStrip(_)
RStrip(s) ==
    IF s # <<>> /\ s[Len(s)] \in Whitespace
    THEN RStrip(SubSeq(s, 1, Len(s) - 1)) ELSE s

Strip(s) == RStrip(LStrip(s))

\* sorted(list(set_of_str))
RECURSIVE sorted(_)
sorted(S) ==
    IF S = {} THEN <<>>
    ELSE LET m == CHOOSE x \in S : \A y \in S : y = x \/ StrLess(x, y)
         IN  <<m>> \o sorted(S \ {m})

Range(f) == {f[i] : i \in DOMAIN f}

-----------------------------------------------------------------------------
(* Value normalizer (logic.py 26-63)                                       *)

\* A normalised value: a str (t = "str", s its characters) or a float
\* (t = "num", the decimal m / 10^e with m not divisible by 10 unless e = 0).
NStr(s) == [t |-> "str", s |-> s, m |-> 0, e |-> 0]

RECURSIVE Canon(_, _)
Canon(m, e) ==
    IF e > 0 /\ m % 10 = 0 THEN Canon(m \div 10, e - 1)
    ELSE [t |-> "num", s |-> <<>>, m |-> m, e |-> e]

\* The floats that are no decimal: not-a-number and the two infinities
\* (m is 1 or -1).
NaN == [t |-> "nan", s |-> <<>>, m |-> 0, e |-> 0]

Inf(sign) == [t |-> "inf", s |-> <<>>, m |-> sign, e |-> 0]

IsFloat(v) == v.t \in {"num", "nan", "inf"}

\* Python's a == b on two normalised values: a nan equals nothing, itself
\* included.
py_eq(a, b) == a = b /\ a.t # "nan"

DigitVal(c) == Ord(c) - 48

DigitChar(n) == <<"0", "1", "2", "3", "4", "5", "6", "7", "8", "9">>[n + 1]

AllDigits(s) == \A i \in DOMAIN s : s[i] \in Digits

RECURSIVE DigitsToInt(_)
DigitsToInt(s) ==
    IF s = <<>> THEN 0
    ELSE 10 * DigitsToInt(SubSeq(s, 1, Len(s) - 1)) + DigitVal(s[Len(s)])

RECURSIVE Pow10(_)
Pow10(n) == IF n = 0 THEN 1 ELSE 10 * Pow10(n - 1)

\* str.rfind(c): 0-based index of the last c, -1 when there is none.
RFind(s, c) ==
    LET at == {i \in DOMAIN s : s[i] = c}
    IN  IF at = {} THEN -1 ELSE (CHOOSE i \in at : \A j \in at : j <= i) - 1

\* s.replace(c, rep) for a one-character c and a replacement string rep.
RECURSIVE Replace(_, _, _)
Replace(s, c, rep) ==
    IF s = <<>> THEN <<>>
    ELSE (IF s[1] = c THEN rep ELSE <<s[1]>>) \o Replace(Tail(s), c, rep)

\* s.split(sep) for a one-character sep.
RECURSIVE Split(_, _)
Split(s, sep) ==
    LET at == {i \in DOMAIN s : s[i] = sep}
    IN  IF at = {} THEN <<s>>
        ELSE LET i == CHOOSE k \in at : \A j \in at : k <= j
             IN  <<SubSeq(s, 1, i - 1)>> \o Split(SubSeq(s, i + 1, Len(s)), sep)

\* _money_re.sub("", s): every currency symbol goes, with the whitespace after it.
Money == {"$"}

RECURSIVE money_sub(_)
money_sub(s) ==
    IF s = <<>> THEN <<>>
    ELSE IF s[1] \in Money THEN money_sub(LStrip(Tail(s)))
    ELSE <<s[1]>> \o money_sub(Tail(s))

\* _only_digits_comma_dot.match(s)
only_digits_comma_dot(s) ==
    s # <<>> /\ \A i \in DOMAIN s : s[i] \in Digits \cup {".", ","}

\* str.lower() on the letters float() reads.
Lower(c) ==
    CASE c = "N" -> "n" [] c = "A" -> "a" [] c = "I" -> "i" [] c = "F" -> "f"
      [] c = "T" -> "t" [] c = "Y" -> "y" [] OTHER -> c

\* Python float(s) on a stripped string over the model's alphabet: an optional
\* sign, then digits with at most one dot and at least one digit, or one of
\* the words nan, inf and infinity in any case.
\* [ok |-> FALSE] stands for ValueError.
FloatOf(s) ==
    LET neg  == s # <<>> /\ s[1] = "-"
        body == IF s # <<>> /\ s[1] \in {"-", "+"} THEN Tail(s) ELSE s
        word == [i \in DOMAIN body |-> Lower(body[i])]
        dot  == RFind(body, ".")
        ip   == IF dot = -1 THEN body ELSE SubSeq(body, 1, dot)
        fp   == IF dot = -1 THEN <<>> ELSE SubSeq(body, dot + 2, Len(body))
        good == /\ AllDigits(ip) /\ AllDigits(fp)
                /\ Len(ip) + Len(fp) > 0
        mag  == DigitsToInt(ip \o fp)
    IN  IF word = <<"n", "a", "n">> THEN [ok |-> TRUE, v |-> NaN]
        ELSE IF word \in {<<"i", "n", "f">>, <<"i", "n", "f", "i", "n", "i", "t", "y">>}
        THEN [ok |-> TRUE, v |-> Inf(IF neg THEN 0 - 1 ELSE 1)]
        ELSE IF good
        THEN [ok |-> TRUE, v |-> Canon(IF neg THEN 0 - mag ELSE mag, Len(fp))]
        ELSE [ok |-> FALSE, v |-> NStr(<<>>)]

\* round(v, 10) on a float; a value with more than 10 decimals is rounded
\* half-to-even on its decimal expansion.
round10(v) ==
    IF v.t # "num" \/ v.e <= 10 THEN v
    ELSE LET p   == Pow10(v.e - 10)
             a   == IF v.m < 0 THEN 0 - v.m ELSE v.m
             q   == a \div p
             r   == a % p
             up  == 2 * r > p \/ (2 * r = p /\ q % 2 = 1)
             mag == IF up THEN q + 1 ELSE q
         IN  Canon(IF v.m < 0 THEN 0 - mag ELSE mag, 10)

\* The separator step reading a comma that stands alone as a thousands
\* separator instead of the decimal separator.
to_number_if_possible_comma_thousands(val) ==
    LET s0 == Strip(val)
        s1 == Strip(money_sub(s0))
        lc == RFind(s1, ",")
        ld == RFind(s1, ".")
        s2 == IF only_digits_comma_dot(s1)
              THEN IF lc > -1 /\ ld > -1
                   THEN IF lc > ld
                        THEN Replace(Replace(s1, ".", <<>>), ",", <<".">>)
                        ELSE Replace(s1, ",", <<>>)
                   ELSE IF lc > -1 THEN Replace(s1, ",", <<>>)
                   ELSE s1
              ELSE s1
        f  == FloatOf(s2)
    IN  IF s0 = <<>> THEN NStr(<<>>)
        ELSE IF f.ok THEN f.v
        ELSE NStr(val)

\* _to_number_if_possible on a str; when no float comes out the code returns
\* "" or val itself, which is a str.
to_number_if_possible(val) ==
    LET s0 == Strip(val)
        s1 == Strip(money_sub(s0))
        lc == RFind(s1, ",")
        ld == RFind(s1, ".")
        s2 == IF only_digits_comma_dot(s1)
              THEN IF lc > -1 /\ ld > -1
                   THEN IF lc > ld
                        THEN Replace(Replace(s1, ".", <<>>), ",", <<".">>)
                        ELSE Replace(s1, ",", <<>>)
                   ELSE IF lc > -1 THEN Replace(s1, ",", <<".">>)
                   ELSE s1
              ELSE s1
        f  == FloatOf(s2)
    IN  IF s0 = <<>> THEN NStr(<<>>)
        ELSE IF f.ok THEN f.v
        ELSE NStr(val)

\* strptime field patterns: %Y is \d\d\d\d, %m is 1[0-2]|0[1-9]|[1-9],
\* %d is 3[01]|[12]\d|0[1-9]|[1-9]| [1-9].  0 stands for no match.
FieldY(p) == IF Len(p) = 4 /\ AllDigits(p) THEN DigitsToInt(p) ELSE 0

FieldM(p) ==
    IF Len(p) \in {1, 2} /\ AllDigits(p) /\ DigitsToInt(p) \in 1..12
    THEN DigitsToInt(p) ELSE 0

FieldD(p) ==
    IF Len(p) \in {1, 2} /\ AllDigits(p) /\ DigitsToInt(p) \in 1..31
    THEN DigitsToInt(p)
    ELSE IF Len(p) = 2 /\ p[1] = " " /\ p[2] \in Digits \ {"0"}
    THEN DigitVal(p[2]) ELSE 0

IsLeap(y) == y % 4 = 0 /\ (y % 100 # 0 \/ y % 400 = 0)

DaysInMonth(y, m) ==
    IF m = 2 THEN (IF IsLeap(y) THEN 29 ELSE 28)
    ELSE IF m \in {4, 6, 9, 11} THEN 30 ELSE 31

\* date(y, m, d).isoformat()
isoformat(y, m, d) ==
    << DigitChar(y \div 1000), DigitChar((y \div 100) % 10),
       DigitChar((y \div 10) % 10), DigitChar(y % 10), "-",
       DigitChar(m \div 10), DigitChar(m % 10), "-",
       DigitChar(d \div 10), DigitChar(d % 10) >>

\* The five patterns with the day-first slash pattern tried before the
\* month-first one.
DateFormats_day_first ==
    << [sep |-> "-", y |-> 1, m |-> 2, d |-> 3],
       [sep |-> ".", y |-> 3, m |-> 2, d |-> 1],
       [sep |-> "/", y |-> 3, m |-> 2, d |-> 1],
       [sep |-> "/", y |-> 3, m |-> 1, d |-> 2],
       [sep |-> "/", y |-> 1, m |-> 2, d |-> 3] >>

\* The five patterns of _to_date_iso_if_possible, in the order tried: the
\* separator and the position (1..3) of the year, month and day fields.
DateFormats ==
    << [sep |-> "-", y |-> 1, m |-> 2, d |-> 3],
       [sep |-> ".", y |-> 3, m |-> 2, d |-> 1],
       [sep |-> "/", y |-> 3, m |-> 1, d |-> 2],
       [sep |-> "/", y |-> 3, m |-> 2, d |-> 1],
       [sep |-> "/", y |-> 1, m |-> 2, d |-> 3] >>

\* datetime.strptime(s, f).date().isoformat(); [ok |-> FALSE] is ValueError.
strptime(s, f) ==
    LET parts == Split(s, f.sep)
        y == FieldY(parts[f.y])
        m == FieldM(parts[f.m])
        d == FieldD(parts[f.d])
    IN  IF Len(parts) = 3 /\ y >= 1 /\ m >= 1 /\ d >= 1 /\ d <= DaysInMonth(y, m)
        THEN [ok |-> TRUE, iso |-> isoformat(y, m, d)]
        ELSE [ok |-> FALSE, iso |-> <<>>]

RECURSIVE date_loop(_, _)
date_loop(s, i) ==
    IF i > Len(DateFormats) THEN [ok |-> FALSE, iso |-> <<>>]
    ELSE LET r == IF Len(Split(s, DateFormats[i].sep)) = 3
                  THEN strptime(s, DateFormats[i])
                  ELSE [ok |-> FALSE, iso |-> <<>>]
         IN  IF r.ok THEN r ELSE date_loop(s, i + 1)

\* _to_date_iso_if_possible on a str: [ok |-> TRUE] with the ISO date, or
\* [ok |-> FALSE] when the code returns "" or val itself.
to_date_iso_if_possible(val) ==
    LET s == Strip(val)
    IN  IF s = <<>> THEN [ok |-> FALSE, iso |-> <<>>] ELSE date_loop(s, 1)

normalize_cell(val) ==
    LET v  == to_date_iso_if_possible(val)
        v2 == to_number_if_possible(val)
    IN  IF v.ok THEN NStr(v.iso)
        ELSE IF IsFloat(v2) THEN round10(v2)
        ELSE NStr(Strip(val))

\* A cell as Python hands it to normalize_cell: None, an int, a float (the
\* decimal m / 10^e) or a str.
PyNone == [t |-> "none", s |-> <<>>, m |-> 0, e |-> 0]

PyInt(n) == [t |-> "int", s |-> <<>>, m |-> n, e |-> 0]

PyFloat(m, e) == Canon(m, e)

\* str(n) of a non-negative int.
RECURSIVE NatToStr(_)
NatToStr(n) ==
    IF n < 10 THEN <<DigitChar(n)>> ELSE NatToStr(n \div 10) \o <<DigitChar(n % 10)>>

\* n zeros.
RECURSIVE Zeros(_)
Zeros(n) == IF n = 0 THEN <<>> ELSE <<"0">> \o Zeros(n - 1)

\* str(val) of an int or of a float written without an exponent: the float
\* always shows a digit on each side of the point ("10.0", "0.25").
py_str(x) ==
    LET a    == IF x.m < 0 THEN 0 - x.m ELSE x.m
        sign == IF x.m < 0 THEN <<"-">> ELSE <<>>
        ds   == NatToStr(a)
        all  == IF Len(ds) <= x.e THEN Zeros(x.e + 1 - Len(ds)) \o ds ELSE ds
    IN  IF x.t = "nan" THEN <<"n", "a", "n">>
        ELSE IF x.t = "inf" THEN sign \o <<"i", "n", "f">>
        ELSE IF x.t = "int" THEN sign \o ds
        ELSE IF x.e = 0 THEN sign \o ds \o <<".", "0">>
        ELSE sign \o SubSeq(all, 1, Len(all) - x.e) \o <<".">>
                  \o SubSeq(all, Len(all) - x.e + 1, Len(all))

\* normalize_cell on any cell: None gives "", a str goes the way above, an
\* int or a float is no date in any pattern and leaves the number step as
\* float(val) (logic.py 31), rounded.
normalize_cell_value(x) ==
    IF x.t = "none" THEN NStr(<<>>)
    ELSE IF x.t = "str" THEN normalize_cell(x.s)
    ELSE LET v == to_date_iso_if_possible(py_str(x))
         IN  IF v.ok THEN NStr(v.iso)
             ELSE round10(IF x.t \in {"nan", "inf"} THEN x ELSE Canon(x.m, x.e))

-----------------------------------------------------------------------------
(* Row/column differ (logic.py 185-253)                                    *)

\* {h: i for i, h in enumerate(hs)}: the last 0-based position of each header.
hmap(hs) ==
    [h \in Range(hs) |->
        (CHOOSE i \in DOMAIN hs : hs[i] = h /\ \A j \in DOMAIN hs : hs[j] = h => j <= i) - 1]

\* The keys of that dict in iteration order: each header at its first position.
hmap_keys(hs) ==
    LET first(i) == \A j \in 1..(i - 1) : hs[j] # hs[i]
        F[i \in 0..Len(hs)] ==
            IF i = 0 THEN <<>>
            ELSE IF first(i) THEN Append(F[i - 1], hs[i]) ELSE F[i - 1]
    IN  F[Len(hs)]

\* CompareResult.__init__
CompareResult ==
    [ missing_rows_in_target    |-> <<>>,
      missing_rows_in_source    |-> <<>>,
      missing_columns_in_target |-> <<>>,
      missing_columns_in_source |-> <<>>,
      compared_headers          |-> <<>>,
      differences               |-> <<>>,
      row_mapping               |-> <<>> ]

\* What a caller holds when no CompareResult was returned to it.
NoResult == [none |-> TRUE]

\* The indexing loop keeping the first row of a key instead of the last.
RECURSIVE index_rows_loop_first_wins(_, _, _, _)
index_rows_loop_first_wins(rows, key_col, i, acc) ==
    IF i > Len(rows) THEN acc
    ELSE LET row     == rows[i]
             key_val == IF key_col < Len(row) THEN Strip(row[key_col + 1]) ELSE <<>>
             put     == [k \in DOMAIN acc \cup {key_val} |->
                            IF k \in DOMAIN acc THEN acc[k]
                            ELSE [idx |-> (i - 1) + 2, vals |-> row]]
         IN  index_rows_loop_first_wins(rows, key_col, i + 1,
                                        IF key_val # <<>> THEN put ELSE acc)

\* The indexing loop without the test of the key cell: a row whose key is
\* absent or empty is indexed under the empty key.
RECURSIVE index_rows_loop_keeps_empty_key(_, _, _, _)
index_rows_loop_keeps_empty_key(rows, key_col, i, acc) ==
    IF i > Len(rows) THEN acc
    ELSE LET row     == rows[i]
             key_val == IF key_col < Len(row) THEN Strip(row[key_col + 1]) ELSE <<>>
             put     == [k \in DOMAIN acc \cup {key_val} |->
                            IF k = key_val THEN [idx |-> (i - 1) + 2, vals |-> row]
                            ELSE acc[k]]
         IN  index_rows_loop_keeps_empty_key(rows, key_col, i + 1, put)

\* index_rows: the loop over enumerate(rows); acc maps a key to its logical
\* row number and its row, a later row with the same key replacing the entry.
RECURSIVE index_rows_loop(_, _, _, _)
index_rows_loop(rows, key_col, i, acc) ==
    IF i > Len(rows) THEN acc
    ELSE LET row     == rows[i]
             key_val == IF key_col < Len(row) THEN Strip(row[key_col + 1]) ELSE <<>>
             put     == [k \in DOMAIN acc \cup {key_val} |->
                            IF k = key_val THEN [idx |-> (i - 1) + 2, vals |-> row]
                            ELSE acc[k]]
         IN  index_rows_loop(rows, key_col, i + 1,
                             IF key_val # <<>> THEN put ELSE acc)

index_rows(rows, hm, key) == index_rows_loop(rows, hm[key], 1, <<>>)

\* srow[sc] if sc < len(srow) else ""
cell_or_empty(row, c) == IF c < Len(row) THEN row[c + 1] ELSE <<>>

\* A comparison of the raw cells, without normalisation.
cells_differ_raw(sv, tv) == sv # tv

\* The comparison of one cell pair (logic.py 250).
cells_differ(sv, tv) == ~py_eq(normalize_cell(sv), normalize_cell(tv))

\* The included headers taken as they are written.
included_set_untrimmed(inc) == Range(inc)

\* The included headers as the comparison uses them (logic.py 221).
included_set(inc) == {Strip(inc[i]) : i \in DOMAIN inc}

\* The common headers without the included-list filter.
common_headers_unfiltered(sh, th, key, inc) ==
    SelectSeq(hmap_keys(sh), LAMBDA h : h \in Range(th) /\ h # key)

\* [h for h in src_hmap if h in tgt_hmap and h != key_h and h in included_set]
common_headers(sh, th, key, inc) ==
    SelectSeq(hmap_keys(sh),
              LAMBDA h : h \in Range(th) /\ h # key /\ h \in included_set(inc))

\* res.missing_rows_in_target and res.missing_rows_in_source (logic.py 238-239)
missing_rows_in_target(src_keys, tgt_keys) == sorted(src_keys \ tgt_keys)

\* Line 239 written as a copy of line 238.
missing_rows_in_source_copied(src_keys, tgt_keys) == sorted(src_keys \ tgt_keys)

missing_rows_in_source(src_keys, tgt_keys) == sorted(tgt_keys \ src_keys)

\* The loop body with the row pairing recorded only for a key that differs.
compare_key_pairing_on_diff(res, k, src, tgt, src_hmap, tgt_hmap, common) ==
    LET rec(h) ==
            [ h     |-> h,
              s_val |-> cell_or_empty(src[k].vals, src_hmap[h]),
              t_val |-> cell_or_empty(tgt[k].vals, tgt_hmap[h]),
              s_row |-> src[k].idx,
              t_row |-> tgt[k].idx,
              s_col |-> src_hmap[h],
              t_col |-> tgt_hmap[h] ]
        diffs ==
            SelectSeq([i \in 1..Len(common) |-> rec(common[i])],
                      LAMBDA r : cells_differ(r.s_val, r.t_val))
        mapped ==
            [x \in DOMAIN res.row_mapping \cup {k} |->
                IF x = k THEN <<src[k].idx, tgt[k].idx>> ELSE res.row_mapping[x]]
    IN  IF diffs # <<>>
        THEN [res EXCEPT !.row_mapping = mapped,
                         !.differences = Append(@, [key |-> k, diffs |-> diffs])]
        ELSE res

\* One pass of the loop over the keys of both tables (logic.py 242-252): res
\* is the result so far, src and tgt the two indexes.
compare_key(res, k, src, tgt, src_hmap, tgt_hmap, common) ==
    LET rec(h) ==
            [ h     |-> h,
              s_val |-> cell_or_empty(src[k].vals, src_hmap[h]),
              t_val |-> cell_or_empty(tgt[k].vals, tgt_hmap[h]),
              s_row |-> src[k].idx,
              t_row |-> tgt[k].idx,
              s_col |-> src_hmap[h],
              t_col |-> tgt_hmap[h] ]
        diffs ==
            SelectSeq([i \in 1..Len(common) |-> rec(common[i])],
                      LAMBDA r : cells_differ(r.s_val, r.t_val))
        mapped ==
            [x \in DOMAIN res.row_mapping \cup {k} |->
                IF x = k THEN <<src[k].idx, tgt[k].idx>> ELSE res.row_mapping[x]]
    IN  [res EXCEPT !.row_mapping = mapped,
                    !.differences =
                        IF diffs # <<>> THEN Append(@, [key |-> k, diffs |-> diffs])
                        ELSE @]

RECURSIVE compare_loop(_, _, _, _, _, _, _, _)
compare_loop(res, keys, i, src, tgt, src_hmap, tgt_hmap, common) ==
    IF i > Len(keys) THEN res
    ELSE compare_loop(compare_key(res, keys[i], src, tgt, src_hmap, tgt_hmap, common),
                      keys, i + 1, src, tgt, src_hmap, tgt_hmap, common)

\* The body of compare_two_sheets after the two key-header checks.
compare_body(sh, sr, th, tr, key, inc) ==
    LET src_hmap == hmap(sh)
        tgt_hmap == hmap(th)
        common   == common_headers(sh, th, key, inc)
        src      == index_rows(sr, src_hmap, key)
        tgt      == index_rows(tr, tgt_hmap, key)
        src_keys == DOMAIN src
        tgt_keys == DOMAIN tgt
        res0     ==
            [CompareResult EXCEPT
                !.missing_columns_in_target = sorted(Range(sh) \ Range(th)),
                !.missing_columns_in_source = sorted(Range(th) \ Range(sh)),
                !.compared_headers          = sorted(Range(common)),
                !.missing_rows_in_target    = missing_rows_in_target(src_keys, tgt_keys),
                !.missing_rows_in_source    = missing_rows_in_source(src_keys, tgt_keys)]
    IN  compare_loop(res0, sorted(src_keys \cap tgt_keys), 1,
                     src, tgt, src_hmap, tgt_hmap, common)

\* The two checks of logic.py 215-216: "" when both pass, else the side named
\* in the ValueError.
key_header_error(sh, th, key) ==
    IF key \notin Range(sh) THEN "source"
    ELSE IF key \notin Range(th) THEN "target"
    ELSE ""

\* compare_two_sheets handing back its fresh, empty result instead of raising.
compare_two_sheets_no_raise(sh, sr, th, tr, key, inc) ==
    IF key_header_error(sh, th, key) # ""
    THEN [raised |-> FALSE, error |-> "", res |-> CompareResult]
    ELSE [raised |-> FALSE, error |-> "", res |-> compare_body(sh, sr, th, tr, key, inc)]

\* compare_two_sheets: what the caller gets, a ValueError or the result.
compare_two_sheets(sh, sr, th, tr, key, inc) ==
    LET err == key_header_error(sh, th, key)
    IN  IF err # ""
        THEN [raised |-> TRUE, error |-> err, res |-> NoResult]
        ELSE [raised |-> FALSE, error |-> "", res |-> compare_body(sh, sr, th, tr, key, inc)]

-----------------------------------------------------------------------------
(* Colour model and cell references (logic.py 65-69, 102-107, 316-341)     *)

\* An Optional[Dict]: None, or a dict d from channel names to thousandths.
\* The remote service leaves a channel of value 0 out of the dict.
NoColor == [none |-> TRUE, d |-> <<>>]

Color(d) == [none |-> FALSE, d |-> d]

\* "not color": None and the empty dict are falsy.
falsy(color) == color.none \/ DOMAIN color.d = {}

\* color.get(channel, 0.0)
channel_of(color, ch) == IF ch \in DOMAIN color.d THEN color.d[ch] ELSE 0

\* The threshold of is_white, 0.9, in thousandths.
WhiteThreshold == 900

is_white(color) ==
    IF falsy(color) THEN TRUE
    ELSE /\ channel_of(color, "red") > WhiteThreshold
         /\ channel_of(color, "green") > WhiteThreshold
         /\ channel_of(color, "blue") > WhiteThreshold

get_color_tuple(c) ==
    IF falsy(c) THEN <<1000, 1000, 1000>>
    ELSE <<channel_of(c, "red"), channel_of(c, "green"), channel_of(c, "blue")>>

Abs(x) == IF x < 0 THEN 0 - x ELSE x

\* The default tolerance of colors_match, 0.03, in thousandths.
Tolerance == 30

\* colors_match comparing the channels only, without the white classes.
colors_match_channels_only(a, b) ==
    LET x == get_color_tuple(a)
        y == get_color_tuple(b)
    IN  /\ Abs(x[1] - y[1]) <= Tolerance
        /\ Abs(x[2] - y[2]) <= Tolerance
        /\ Abs(x[3] - y[3]) <= Tolerance

colors_match(a, b) ==
    LET w1 == is_white(a)
        w2 == is_white(b)
        x  == get_color_tuple(a)
        y  == get_color_tuple(b)
    IN  IF w1 /\ w2 THEN TRUE
        ELSE IF w1 # w2 THEN FALSE
        ELSE /\ Abs(x[1] - y[1]) <= Tolerance
             /\ Abs(x[2] - y[2]) <= Tolerance
             /\ Abs(x[3] - y[3]) <= Tolerance

\* One row of a format snapshot: has_values tells whether the dict has the
\* key 'values'; a cell has has_format when it is non-empty and holds
\* 'effectiveFormat', whose backgroundColor is bg (None when missing).
FmtRow(cells) == [has_values |-> TRUE, values |-> cells]

FmtRowNoValues == [has_values |-> FALSE, values |-> <<>>]

FmtCell(bg) == [has_format |-> TRUE, bg |-> bg]

FmtCellEmpty == [has_format |-> FALSE, bg |-> NoColor]

get_bg_color(row_data, col_idx) ==
    IF ~row_data.has_values THEN NoColor
    ELSE IF col_idx >= Len(row_data.values) THEN NoColor
    ELSE IF ~row_data.values[col_idx + 1].has_format THEN NoColor
    ELSE row_data.values[col_idx + 1].bg

\* str(n) for n >= 0
RECURSIVE IntStr(_)
IntStr(n) ==
    IF n < 10 THEN <<DigitChar(n)>> ELSE IntStr(n \div 10) \o <<DigitChar(n % 10)>>

\* chr(65 + r)
Letter(r) ==
    << "A", "B", "C", "D", "E", "F", "G", "H", "I", "J", "K", "L", "M", "N",
       "O", "P", "Q", "R", "S", "T", "U", "V", "W", "X", "Y", "Z" >>[r + 1]

\* The while loop of a1_cell: n, r = divmod(n - 1, 26); s = chr(65 + r) + s
RECURSIVE a1_letters(_, _)
a1_letters(n, s) ==
    IF n > 0 THEN a1_letters((n - 1) \div 26, <<Letter((n - 1) % 26)>> \o s) ELSE s

a1_cell(row0, col0) == a1_letters(col0 + 1, <<>>) \o IntStr(row0 + 1)

-----------------------------------------------------------------------------
(* Colour-consistency auditor (logic.py 255-314, 343-386)                  *)

\* A report line "[tag] Cell {cell} (Row {row}, {h}): {desc}", kept by its
\* parts; s_rgb and t_rgb are the triples an RGB-mismatch text shows.
Line(tag, cell, row, h, desc, s_rgb, t_rgb) ==
    [tag |-> tag, cell |-> cell, row |-> row, h |-> h, desc |-> desc,
     s_rgb |-> s_rgb, t_rgb |-> t_rgb]

\* The line check_color_status returns when it has no finding.
AllClear ==
    Line("ALL CLEAR", <<>>, 0, <<>>,
         "Colors are perfectly synced with data differences.", <<>>, <<>>)

\* The text of a line after its tag, up to the description: the lines of one
\* report share the tag, and two lines equal so far are the same line.
LineText(l) ==
    l.cell \o <<" ", "(", "R", "o", "w", " ">> \o IntStr(l.row)
           \o <<",", " ">> \o l.h \o <<")", ":">>

\* sorted(report): insertion into the sorted prefix, equal lines kept.
RECURSIVE sorted_lines(_)
sorted_lines(report) ==
    IF report = <<>> THEN <<>>
    ELSE LET rest == sorted_lines(Tail(report))
             x    == report[1]
             before == SelectSeq(rest, LAMBDA l : StrLess(LineText(l), LineText(x)))
             after  == SelectSeq(rest, LAMBDA l : ~StrLess(LineText(l), LineText(x)))
         IN  before \o <<x>> \o after

\* {tgt_hmap[h] for h in included_h if h in tgt_hmap}
included_col_indices(th, inc) ==
    {hmap(th)[inc[i]] : i \in {j \in DOMAIN inc : inc[j] \in Range(th)}}

\* The (row, column) pairs, 0-based with the header as row 0, of the coloured
\* cells of the snapshot in the included columns (logic.py 273-283).
actually_colored_cells(current_formats, th, inc) ==
    { <<r, c>> \in (1..Len(current_formats)) \X included_col_indices(th, inc) :
        /\ current_formats[r].has_values
        /\ c < Len(current_formats[r].values)
        /\ current_formats[r].values[c + 1].has_format
        /\ ~is_white(current_formats[r].values[c + 1].bg) }

\* The difference records of a result in the order the loops visit them.
RECURSIVE records_in_order(_)
records_in_order(differences) ==
    IF differences = <<>> THEN <<>>
    ELSE differences[1].diffs \o records_in_order(Tail(differences))

missing_color_line(r) ==
    Line("MISSING COLOR", a1_cell(r.t_row - 1, r.t_col), r.t_row, r.h,
         "Has difference but is WHITE.", <<>>, <<>>)

false_positive_line(coord) ==
    Line("FALSE POSITIVE", a1_cell(coord[1], coord[2]), coord[1] + 1, <<>>,
         "Is colored but data matches.", <<>>, <<>>)

\* check_color_status with step 3 in place: a line for every coloured cell
\* of an included column that has no difference record.
check_color_status_with_false_positives(res, current_formats, th, inc) ==
    LET colored == actually_colored_cells(current_formats, th, inc)
        should  == {<<r.t_row - 1, r.t_col>> : r \in Range(records_in_order(res.differences))}
        missing ==
            SelectSeq(records_in_order(res.differences),
                      LAMBDA r : <<r.t_row - 1, r.t_col>> \notin colored)
        stale   == sorted({a1_cell(x[1], x[2]) : x \in colored \ should})
        report  ==
            [i \in 1..Len(missing) |-> missing_color_line(missing[i])]
            \o [i \in 1..Len(stale) |->
                   LET x == CHOOSE y \in colored \ should : a1_cell(y[1], y[2]) = stale[i]
                   IN  false_positive_line(x)]
    IN  IF report = <<>> THEN <<AllClear>> ELSE sorted_lines(report)

check_color_status(res, current_formats, th, inc) ==
    LET colored == actually_colored_cells(current_formats, th, inc)
        missing ==
            SelectSeq(records_in_order(res.differences),
                      LAMBDA r : <<r.t_row - 1, r.t_col>> \notin colored)
        report  == [i \in 1..Len(missing) |-> missing_color_line(missing[i])]
    IN  IF report = <<>> THEN <<AllClear>> ELSE sorted_lines(report)

\* The finding of compare_sheet_colors for one cell pair (logic.py 369-384).
color_diff_line(t_row, t_col, h, s_color, t_color) ==
    LET s_white == is_white(s_color)
        t_white == is_white(t_color)
    IN  IF s_white /\ ~t_white
        THEN Line("COLOR DIFF", a1_cell(t_row - 1, t_col), t_row, h,
                  "Source is White, Target is Colored", <<>>, <<>>)
        ELSE IF ~s_white /\ t_white
        THEN Line("COLOR DIFF", a1_cell(t_row - 1, t_col), t_row, h,
                  "Source is Colored, Target is White", <<>>, <<>>)
        ELSE Line("COLOR DIFF", a1_cell(t_row - 1, t_col), t_row, h,
                  "RGB Mismatch", get_color_tuple(s_color), get_color_tuple(t_color))

\* The inner loop of compare_sheet_colors over included_h for one row pair.
color_diffs_of_row(s_row_data, t_row_data, t_row, sh, th, inc) ==
    LET both == SelectSeq(inc, LAMBDA h : h \in Range(sh) /\ h \in Range(th))
        line(h) ==
            color_diff_line(t_row, hmap(th)[h], h,
                            get_bg_color(s_row_data, hmap(sh)[h]),
                            get_bg_color(t_row_data, hmap(th)[h]))
        differ == SelectSeq(both, LAMBDA h :
                      ~colors_match(get_bg_color(s_row_data, hmap(sh)[h]),
                                    get_bg_color(t_row_data, hmap(th)[h])))
    IN  [i \in 1..Len(differ) |-> line(differ[i])]

\* The outer loop over result.row_mapping.items(), in the order the keys
\* were inserted (sorted); a row pair outside either snapshot is skipped.
RECURSIVE color_loop(_, _, _, _, _, _, _, _)
color_loop(keys, i, mapping, s_fmt, t_fmt, sh, th, inc) ==
    IF i > Len(keys) THEN <<>>
    ELSE LET s_idx == mapping[keys[i]][1] - 2
             t_idx == mapping[keys[i]][2] - 2
             here  ==
                 IF s_idx < 0 \/ s_idx >= Len(s_fmt) THEN <<>>
                 ELSE IF t_idx < 0 \/ t_idx >= Len(t_fmt) THEN <<>>
                 ELSE color_diffs_of_row(s_fmt[s_idx + 1], t_fmt[t_idx + 1],
                                         mapping[keys[i]][2], sh, th, inc)
         IN  here \o color_loop(keys, i + 1, mapping, s_fmt, t_fmt, sh, th, inc)

compare_sheet_colors(res, s_fmt, t_fmt, sh, th, inc) ==
    sorted_lines(color_loop(sorted(DOMAIN res.row_mapping), 1, res.row_mapping,
                            s_fmt, t_fmt, sh, th, inc))

-----------------------------------------------------------------------------
(* Inputs of the comparison                                                *)

ID == <<"I", "D">>

Val == <<"V", "a", "l">>

Ign == <<"I", "g", "n">>

New == <<"N", "e", "w">>

Add == <<"A", "d", "d">>

\* (source headers, target headers), each list as fetch_values returns it
\* (every header stripped): a column only the source has; the target's columns
\* in another order; a source without the key column; a target without it;
\* two common columns and two columns only the target has, neither pair
\* in sorted order.
HeaderPairs ==
    { <<<<ID, Val, Ign>>, <<ID, Val>>>>,
      <<<<ID, Val, Ign>>, <<Val, ID>>>>,
      <<<<Val, Ign>>, <<ID, Val>>>>,
      <<<<ID, Val>>, <<Val, Ign>>>>,
      <<<<ID, Val, Ign>>, <<ID, Val, New, Ign, Add>>>> }

\* Included-header lists: the compared column alone; an entry with
\* surrounding blanks next to a column only one side has; the key header next
\* to that column, leaving out the common column Val.
IncludedLists ==
    { <<Val>>, <<<<" ", "V", "a", "l", " ">>, Ign>>, <<ID, Ign>> }

\* Source rows: a full row; the same key written with blanks, with a number
\* and no third cell; a row that ends after its first cell; a row whose only
\* cell is empty.
SrcRowChoices ==
    { <<<<"1">>, <<"a">>, <<"x">>>>,
      <<<<" ", "1", " ">>, <<"1", ".", "0">>>>,
      <<<<"2">>>>,
      <<<<>>>> }

\* Target rows; the last one has a blank for its only cell.
TgtRowChoices ==
    { <<<<"1">>, <<"a">>>>,
      <<<<"2">>, <<"b">>>>,
      <<<<"1">>, <<"1">>, <<"z">>>>,
      <<<<" ">>>> }

MaxRows == 2

RECURSIVE SeqsUpTo(_, _)
SeqsUpTo(S, n) ==
    IF n = 0 THEN {<<>>}
    ELSE LET shorter == SeqsUpTo(S, n - 1)
         IN  shorter \cup {Append(q, x) : q \in shorter, x \in S}

SrcTables == SeqsUpTo(SrcRowChoices, MaxRows)

TgtTables == SeqsUpTo(TgtRowChoices, MaxRows)

\* The window before any table is connected and any operation is run.
UiIdle ==
    /\ src_type = "Google Sheet"
    /\ src_id = "" /\ src_file = "" /\ tgt_id = ""
    /\ update_marker_col = <<>>
    /\ base_color = NoColor
    /\ src_values = <<>> /\ tgt_values = <<>>
    /\ value_updates = <<>> /\ src_value_updates = <<>>
    /\ tgt_color_reqs = <<>> /\ src_color_reqs = <<>>
    /\ requests = <<>>
    /\ ops = <<>>

\* No remote call under way.
RetryIdle ==
    /\ client_op = ""
    /\ outcomes = <<>> /\ attempt = 0 /\ calls = 0 /\ sleeps = <<>>
    /\ returned = FALSE /\ raised = ""
    /\ client_end = ""

\* No cell handed to normalize_cell.
NormIdle ==
    cell_val = NStr(<<>>) /\ normalized = NStr(<<>>) /\ renormalized = NStr(<<>>)

\* No operation of the window under way, its client authorized.
BusyIdle == busy = FALSE /\ client = "connected" /\ cred_path = "key.json"

Init ==
    /\ \E hp \in HeaderPairs : s_h = hp[1] /\ t_h = hp[2]
    /\ s_r \in SrcTables
    /\ t_r \in TgtTables
    /\ key_h = ID
    /\ included_h \in IncludedLists
    /\ s_formats = <<>>
    /\ t_formats = <<>>
    /\ result = NoResult
    /\ reverse = NoResult
    /\ error = ""
    /\ color_report = <<>>
    /\ color_diff_report = <<>>
    /\ c1 = NoColor
    /\ c2 = NoColor
    /\ matched = FALSE
    /\ matched_rev = FALSE
    /\ pc = "start"
    /\ UiIdle /\ RetryIdle /\ NormIdle /\ BusyIdle

\* result = compare_two_sheets(s_h, s_r, t_h, t_r, key, included)
Compare ==
    /\ pc = "start"
    /\ LET out == compare_two_sheets(s_h, s_r, t_h, t_r, key_h, included_h)
       IN  /\ result' = out.res
           /\ error' = out.error
           /\ pc' = IF out.raised THEN "raised" ELSE "compared"
    /\ UNCHANGED <<s_h, s_r, t_h, t_r, key_h, included_h, s_formats, t_formats,
                   reverse, color_report, color_diff_report, c1, c2, matched,
                   matched_rev,
                   ui_vars, retry_vars, norm_vars, busy_vars>>

\* The same comparison with the two tables in each other's role.
CompareReverse ==
    /\ pc = "compared"
    /\ reverse = NoResult
    /\ reverse' = compare_two_sheets(t_h, t_r, s_h, s_r, key_h, included_h).res
    /\ UNCHANGED <<s_h, s_r, t_h, t_r, key_h, included_h, s_formats, t_formats,
                   result, error, color_report, color_diff_report, c1, c2,
                   matched, matched_rev, pc,
                   ui_vars, retry_vars, norm_vars, busy_vars>>

Next == Compare \/ CompareReverse

Spec == Init /\ [][Next]_vars

-----------------------------------------------------------------------------
(* Inputs of the audits                                                    *)

White == Color([red |-> 1000, green |-> 1000, blue |-> 1000])

NearWhite == Color([red |-> 950, green |-> 950, blue |-> 950])

Yellow == Color([red |-> 1000, green |-> 1000])

NearYellow == Color([red |-> 1000, green |-> 980])

Orange == Color([red |-> 1000, green |-> 600])

\* Tables whose comparison succeeds: a key without and a key with a
\* difference; the target's columns in another order and a repeated source
\* key; a repeated target key and no difference; two differing keys in
\* another row order; no key in common.
AuditCases ==
    { [ s_h |-> <<ID, Val, Ign>>, t_h |-> <<ID, Val>>,
        s_r |-> << <<<<"1">>, <<"a">>, <<"x">>>>, <<<<"2">>>> >>,
        t_r |-> << <<<<"1">>, <<"a">>>>, <<<<"2">>, <<"b">>>> >> ],
      [ s_h |-> <<ID, Val, Ign>>, t_h |-> <<Val, ID>>,
        s_r |-> << <<<<" ", "1", " ">>, <<"1", ".", "0">>>>, <<<<"1">>, <<"a">>, <<"x">>>> >>,
        t_r |-> << <<<<"1">>, <<"1">>, <<"z">>>>, <<<<"1">>, <<"a">>>> >> ],
      [ s_h |-> <<ID, Val, Ign>>, t_h |-> <<ID, Val>>,
        s_r |-> << <<<<"1">>, <<"a">>, <<"x">>>> >>,
        t_r |-> << <<<<"1">>, <<"1">>, <<"z">>>>, <<<<"1">>, <<"a">>>> >> ],
      [ s_h |-> <<ID, Val, Ign>>, t_h |-> <<ID, Val>>,
        s_r |-> << <<<<"1">>, <<"a">>, <<"x">>>>, <<<<"2">>>> >>,
        t_r |-> << <<<<"2">>, <<"b">>>>, <<<<"1">>, <<"1">>, <<"z">>>> >> ],
      [ s_h |-> <<ID, Val, Ign>>, t_h |-> <<ID, Val>>,
        s_r |-> << <<<<"2">>>> >>,
        t_r |-> << <<<<"1">>, <<"a">>>> >> ] }

\* Rows of the target's format snapshot: no 'values'; two coloured cells; a
\* white cell and a cell without format; one near-white cell and no second.
TgtFmtRowChoices ==
    { FmtRowNoValues,
      FmtRow(<<FmtCell(Yellow), FmtCell(Yellow)>>),
      FmtRow(<<FmtCell(White), FmtCellEmpty>>),
      FmtRow(<<FmtCell(NearWhite)>>) }

\* Rows of the source's format snapshot.
SrcFmtRowChoices ==
    { FmtRowNoValues,
      FmtRow(<<FmtCell(White), FmtCell(NearYellow)>>),
      FmtRow(<<FmtCell(Orange), FmtCell(Orange)>>) }

MaxFmtRows == 2

InitAudit ==
    /\ \E a \in AuditCases :
          s_h = a.s_h /\ s_r = a.s_r /\ t_h = a.t_h /\ t_r = a.t_r
    /\ key_h = ID
    /\ included_h \in IncludedLists
    /\ s_formats \in SeqsUpTo(SrcFmtRowChoices, MaxFmtRows)
    /\ t_formats \in SeqsUpTo(TgtFmtRowChoices, MaxFmtRows)
    /\ result = NoResult
    /\ reverse = NoResult
    /\ error = ""
    /\ color_report = <<>>
    /\ color_diff_report = <<>>
    /\ c1 = NoColor
    /\ c2 = NoColor
    /\ matched = FALSE
    /\ matched_rev = FALSE
    /\ pc = "start"
    /\ UiIdle /\ RetryIdle /\ NormIdle /\ BusyIdle

\* color_report = check_color_status(result, current_formats, t_h, included)
CheckColorStatus ==
    /\ pc = "compared"
    /\ color_report' = check_color_status(result, t_formats, t_h, included_h)
    /\ pc' = "checked"
    /\ UNCHANGED <<s_h, s_r, t_h, t_r, key_h, included_h, s_formats, t_formats,
                   result, reverse, error, color_diff_report, c1, c2, matched,
                   matched_rev,
                   ui_vars, retry_vars, norm_vars, busy_vars>>

\* color_diff_report = compare_sheet_colors(result, src_formats,
\*                                          current_formats, s_h, t_h, included)
CompareSheetColors ==
    /\ pc = "checked"
    /\ color_diff_report' =
          compare_sheet_colors(result, s_formats, t_formats, s_h, t_h, included_h)
    /\ pc' = "audited"
    /\ UNCHANGED <<s_h, s_r, t_h, t_r, key_h, included_h, s_formats, t_formats,
                   result, reverse, error, color_report, c1, c2, matched,
                   matched_rev,
                   ui_vars, retry_vars, norm_vars, busy_vars>>

NextAudit == Compare \/ CheckColorStatus \/ CompareSheetColors

SpecAudit == InitAudit /\ [][NextAudit]_vars

-----------------------------------------------------------------------------
(* Inputs of colors_match                                                  *)

\* Channel values in thousandths, chosen where the code's double arithmetic
\* and exact arithmetic agree: 0.03 and 0.031 lie at and just past the
\* tolerance from an absent channel (0.0), 0.9 and 0.901 at and just past
\* the white threshold.
ChannelValues == {30, 31, 900, 901, 1000}

\* A dict with any of the three channels present.
ColorDicts ==
    { [ch \in chs |-> v[ch]] :
        chs \in SUBSET {"red", "green", "blue"},
        v \in [{"red", "green", "blue"} -> ChannelValues] }

Colors == {NoColor} \cup {Color(d) : d \in ColorDicts}

InitColors ==
    /\ c1 \in Colors
    /\ c2 \in Colors
    /\ s_h = <<>> /\ s_r = <<>> /\ t_h = <<>> /\ t_r = <<>>
    /\ key_h = ID
    /\ included_h = <<>>
    /\ s_formats = <<>>
    /\ t_formats = <<>>
    /\ result = NoResult
    /\ reverse = NoResult
    /\ error = ""
    /\ color_report = <<>>
    /\ color_diff_report = <<>>
    /\ matched = FALSE
    /\ matched_rev = FALSE
    /\ pc = "start"
    /\ UiIdle /\ RetryIdle /\ NormIdle /\ BusyIdle

\* matched = colors_match(c1, c2)
ColorsMatch ==
    /\ pc = "start"
    /\ matched' = colors_match(c1, c2)
    /\ pc' = "matched"
    /\ UNCHANGED <<s_h, s_r, t_h, t_r, key_h, included_h, s_formats, t_formats,
                   result, reverse, error, color_report, color_diff_report,
                   c1, c2, matched_rev,
                   ui_vars, retry_vars, norm_vars, busy_vars>>

\* matched_rev = colors_match(c2, c1)
ColorsMatchReverse ==
    /\ pc = "matched"
    /\ matched_rev' = colors_match(c2, c1)
    /\ pc' = "matched_both"
    /\ UNCHANGED <<s_h, s_r, t_h, t_r, key_h, included_h, s_formats, t_formats,
                   result, reverse, error, color_report, color_diff_report,
                   c1, c2, matched,
                   ui_vars, retry_vars, norm_vars, busy_vars>>

NextColors == ColorsMatch \/ ColorsMatchReverse

SpecColors == InitColors /\ [][NextColors]_vars

-----------------------------------------------------------------------------
(* Table clients and the operations of the window                          *)
(* (logic.py 139-181, ui.py 373-604)                                       *)

\* A remote table is the list of its rows of raw cells, the header row
\* first.  A client call is logged as [call, table]; the client is taken to
\* be connected and each call to succeed (the retry layer is modelled on its
\* own below).

\* SheetsClient.fetch_values and TSVClient.fetch_values: the header cells
\* stripped, the other rows as they are.
fetch_values(values) ==
    IF values = <<>> THEN [h |-> <<>>, r |-> <<>>]
    ELSE [h |-> [i \in 1..Len(values[1]) |-> Strip(values[1][i])],
          r |-> Tail(values)]

Request(call, table) == [call |-> call, table |-> table]

\* The calls that go over the network, and those of them that write.
NetworkCalls ==
    {"fetch_values", "fetch_formats", "open_sheet", "values_batch_update",
     "batch_update"}

WriteCalls == {"values_batch_update", "batch_update"}

\* _get_run_params: "" or the message of the ValueError it raises.  tid and
\* sid stand for a spreadsheet id together with its tab.
get_run_params_error(key, included, stype, sid, tid) ==
    IF Strip(key) = <<>> THEN "Key header must be selected."
    ELSE IF tid = "" THEN "Target sheet and tab must be specified."
    ELSE IF stype = "Google Sheet" /\ sid = ""
    THEN "Source sheet and tab must be specified for this operation."
    ELSE IF included = <<>> THEN "No columns selected for comparison."
    ELSE ""

\* _load_table(kind): the table, the calls made, or the ValueError raised
\* before any call.
load_table(kind, stype, sid, sfile, tid, svalues, tvalues) ==
    LET fail(msg) == [error |-> msg, h |-> <<>>, r |-> <<>>, reqs |-> <<>>]
        got(values, reqs) ==
            [error |-> "", h |-> fetch_values(values).h,
             r |-> fetch_values(values).r, reqs |-> reqs]
    IN  IF kind = "source"
        THEN IF stype = "Google Sheet"
             THEN IF sid = "" THEN fail("Source Spreadsheet/Worksheet not set.")
                  ELSE got(svalues, <<Request("fetch_values", "source")>>)
             ELSE IF sfile = "" THEN fail("Source TSV file path not set.")
                  ELSE got(svalues, <<Request("read_file", "source")>>)
        ELSE IF tid = "" THEN fail("Target Spreadsheet/Worksheet not set.")
             ELSE got(tvalues, <<Request("fetch_values", "target")>>)

\* The opening with the parameters checked only after the tables are loaded.
load_and_compare_params_last(key, included, stype, sid, sfile, tid, svalues, tvalues) ==
    LET perr == get_run_params_error(key, included, stype, sid, tid)
        src  == load_table("source", stype, sid, sfile, tid, svalues, tvalues)
        tgt  == load_table("target", stype, sid, sfile, tid, svalues, tvalues)
        cmp  == compare_two_sheets(src.h, src.r, tgt.h, tgt.r, Strip(key), included)
        none == [h |-> <<>>, r |-> <<>>]
        st(err, s, t, res, reqs) ==
            [error |-> err, s_h |-> s.h, s_r |-> s.r, t_h |-> t.h, t_r |-> t.r,
             result |-> res, requests |-> reqs]
    IN  IF src.error # "" THEN st(src.error, none, none, NoResult, <<>>)
        ELSE IF tgt.error # "" THEN st(tgt.error, src, none, NoResult, src.reqs)
        ELSE IF perr # "" THEN st(perr, src, tgt, NoResult, src.reqs \o tgt.reqs)
        ELSE IF cmp.raised
        THEN st(IF cmp.error = "source" THEN "Key header not found in source"
                ELSE "Key header not found in target",
                src, tgt, NoResult, src.reqs \o tgt.reqs)
        ELSE st("", src, tgt, cmp.res, src.reqs \o tgt.reqs)

\* What _load_table and compare_two_sheets leave to the handler: the error
\* shown, the tables loaded so far, the comparison and the requests made.
load_state(err, s, t, res, reqs) ==
    [error |-> err, s_h |-> s.h, s_r |-> s.r, t_h |-> t.h, t_r |-> t.r,
     result |-> res, requests |-> reqs]

\* The handler once both tables are loaded: cmp is what compare_two_sheets
\* gave or raised (ui.py 420-424, 436-440, 476).
compare_loaded(src, tgt, cmp) ==
    IF cmp.raised
    THEN load_state(IF cmp.error = "source" THEN "Key header not found in source"
                    ELSE "Key header not found in target",
                    src, tgt, NoResult, src.reqs \o tgt.reqs)
    ELSE load_state("", src, tgt, cmp.res, src.reqs \o tgt.reqs)

\* The handler from _get_run_params on: perr is its error, src and tgt what
\* the two calls of _load_table give.
load_then_compare(perr, src, tgt, key, included) ==
    LET none == [h |-> <<>>, r |-> <<>>]
    IN  IF perr # "" THEN load_state(perr, none, none, NoResult, <<>>)
        ELSE IF src.error # "" THEN load_state(src.error, none, none, NoResult, <<>>)
        ELSE IF tgt.error # "" THEN load_state(tgt.error, src, none, NoResult, src.reqs)
        ELSE compare_loaded(src, tgt,
                            compare_two_sheets(src.h, src.r, tgt.h, tgt.r,
                                               Strip(key), included))

\* The common opening of _check_only, _check_color_only and _run (e.g. ui.py
\* 473-476): the parameters, the two tables, the comparison.  error is "" or
\* what the except clause shows.
load_and_compare(key, included, stype, sid, sfile, tid, svalues, tvalues) ==
    load_then_compare(
        get_run_params_error(key, included, stype, sid, tid),
        load_table("source", stype, sid, sfile, tid, svalues, tvalues),
        load_table("target", stype, sid, sfile, tid, svalues, tvalues),
        key, included)

\* BRIGHT_COLORS
BRIGHT_COLORS ==
    [ Yellow  |-> Color([red |-> 1000, green |-> 1000, blue |-> 0]),
      Orange  |-> Color([red |-> 1000, green |-> 600,  blue |-> 0]),
      Magenta |-> Color([red |-> 1000, green |-> 0,    blue |-> 1000]),
      Blue    |-> Color([red |-> 0,    green |-> 600,  blue |-> 1000]),
      Cyan    |-> Color([red |-> 0,    green |-> 1000, blue |-> 1000]),
      Lime    |-> Color([red |-> 600,  green |-> 1000, blue |-> 0]) ]

\* _create_color_request: a repeatCell over one cell.
create_color_request(sheet_id, row_idx, col_idx, color) ==
    [ sheetId          |-> sheet_id,
      startRowIndex    |-> row_idx,
      endRowIndex      |-> row_idx + 1,
      startColumnIndex |-> col_idx,
      endColumnIndex   |-> col_idx + 1,
      backgroundColor  |-> color ]

\* f"UPDATE {datetime.now().strftime('%y%m%d')}" on the day of the run.
marker_text == <<"U", "P", "D", "A", "T", "E", " ", "2", "5", "0", "1", "0", "1">>

\* The four lists _run fills.
EmptyPlan ==
    [ value_updates     |-> <<>>,
      src_value_updates |-> <<>>,
      tgt_color_reqs    |-> <<>>,
      src_color_reqs    |-> <<>> ]

\* The inner loop writing the value whether or not a sync was asked for.
plan_record_always_writes(plan, d, s_row_idx, t_row_idx, cx) ==
    [plan EXCEPT
        !.value_updates = Append(@, <<t_row_idx - 1, d.t_col, d.s_val>>),
        !.tgt_color_reqs =
            Append(@, create_color_request("target", t_row_idx - 1, d.t_col,
                                           cx.base_color)),
        !.src_color_reqs =
            IF cx.is_source_sheet
            THEN Append(@, create_color_request("source", s_row_idx - 1, d.s_col,
                                                cx.base_color))
            ELSE @]

\* The inner loop painting the target at the source's row and column.
plan_record_target_paint_at_source_cell(plan, d, s_row_idx, t_row_idx, cx) ==
    [plan EXCEPT
        !.value_updates =
            IF cx.sync THEN Append(@, <<t_row_idx - 1, d.t_col, d.s_val>>) ELSE @,
        !.tgt_color_reqs =
            Append(@, create_color_request("target", s_row_idx - 1, d.s_col,
                                           cx.base_color)),
        !.src_color_reqs =
            IF cx.is_source_sheet
            THEN Append(@, create_color_request("source", s_row_idx - 1, d.s_col,
                                                cx.base_color))
            ELSE @]

\* One pass of the inner loop (ui.py 509-517) for the record d of a row.
plan_record(plan, d, s_row_idx, t_row_idx, cx) ==
    [plan EXCEPT
        !.value_updates =
            IF cx.sync THEN Append(@, <<t_row_idx - 1, d.t_col, d.s_val>>) ELSE @,
        !.tgt_color_reqs =
            Append(@, create_color_request("target", t_row_idx - 1, d.t_col,
                                           cx.base_color)),
        !.src_color_reqs =
            IF cx.is_source_sheet
            THEN Append(@, create_color_request("source", s_row_idx - 1, d.s_col,
                                                cx.base_color))
            ELSE @]

RECURSIVE plan_records(_, _, _, _, _, _)
plan_records(plan, diffs, i, s_row_idx, t_row_idx, cx) ==
    IF i > Len(diffs) THEN plan
    ELSE plan_records(plan_record(plan, diffs[i], s_row_idx, t_row_idx, cx),
                      diffs, i + 1, s_row_idx, t_row_idx, cx)

\* The stamp of the target side (ui.py 524-532).
plan_marker_target(plan, t_row_idx, cx) ==
    IF cx.update_marker_col \in DOMAIN cx.tgt_header_map
    THEN LET marker_col_idx == cx.tgt_header_map[cx.update_marker_col]
             marker_row_0   == t_row_idx - 1
         IN  [plan EXCEPT
                !.value_updates =
                    IF cx.sync
                    THEN Append(@, <<marker_row_0, marker_col_idx, marker_text>>)
                    ELSE @,
                !.tgt_color_reqs =
                    Append(@, create_color_request("target", marker_row_0,
                                                   marker_col_idx, cx.base_color))]
    ELSE plan

\* The source stamp made to depend on the target having the marker column.
plan_marker_source_needs_target(plan, s_row_idx, cx) ==
    IF /\ cx.is_source_sheet
       /\ cx.update_marker_col \in DOMAIN cx.src_header_map
       /\ cx.update_marker_col \in DOMAIN cx.tgt_header_map
    THEN LET marker_col_idx == cx.src_header_map[cx.update_marker_col]
             marker_row_0   == s_row_idx - 1
         IN  [plan EXCEPT
                !.src_value_updates =
                    IF cx.sync
                    THEN Append(@, <<marker_row_0, marker_col_idx, marker_text>>)
                    ELSE @,
                !.src_color_reqs =
                    Append(@, create_color_request("source", marker_row_0,
                                                   marker_col_idx, cx.base_color))]
    ELSE plan

\* The stamp of the source side (ui.py 535-543).
plan_marker_source(plan, s_row_idx, cx) ==
    IF cx.is_source_sheet /\ cx.update_marker_col \in DOMAIN cx.src_header_map
    THEN LET marker_col_idx == cx.src_header_map[cx.update_marker_col]
             marker_row_0   == s_row_idx - 1
         IN  [plan EXCEPT
                !.src_value_updates =
                    IF cx.sync
                    THEN Append(@, <<marker_row_0, marker_col_idx, marker_text>>)
                    ELSE @,
                !.src_color_reqs =
                    Append(@, create_color_request("source", marker_row_0,
                                                   marker_col_idx, cx.base_color))]
    ELSE plan

\* One pass of the outer loop (ui.py 504-543) for a key and its records.
plan_key(plan, entry, cx) ==
    LET s_row_idx == entry.diffs[1].s_row
        t_row_idx == entry.diffs[1].t_row
        p1 == plan_records(plan, entry.diffs, 1, s_row_idx, t_row_idx, cx)
    IN  IF cx.update_marker_col # <<>>
        THEN plan_marker_source(plan_marker_target(p1, t_row_idx, cx), s_row_idx, cx)
        ELSE p1

RECURSIVE plan_loop(_, _, _, _)
plan_loop(plan, differences, i, cx) ==
    IF i > Len(differences) THEN plan
    ELSE plan_loop(plan_key(plan, differences[i], cx), differences, i + 1, cx)

\* The data of SheetsClient.batch_update_values: one range and one value
\* (str(v)) per update.
batch_update_values_data(updates) ==
    [i \in 1..Len(updates) |->
        [range |-> a1_cell(updates[i][1], updates[i][2]), value |-> updates[i][3]]]

\* The calls of ui.py 548-554, in order; batch_update_values and batch_update
\* make none for an empty list.
send_requests(plan, sync) ==
    (IF sync /\ plan.value_updates # <<>>
     THEN <<Request("values_batch_update", "target")>> ELSE <<>>)
    \o (IF sync /\ plan.src_value_updates # <<>>
        THEN <<Request("values_batch_update", "source")>> ELSE <<>>)
    \o (IF plan.tgt_color_reqs # <<>>
        THEN <<Request("batch_update", "target")>> ELSE <<>>)
    \o (IF plan.src_color_reqs # <<>>
        THEN <<Request("batch_update", "source")>> ELSE <<>>)

\* The cell an A1 range names: 0-based row and column.
RECURSIVE a1_col(_, _)
a1_col(letters, n) ==
    IF letters = <<>> THEN n
    ELSE a1_col(Tail(letters), 26 * n + (Ord(letters[1]) - 64))

a1_parse(range) ==
    LET k == Cardinality({i \in DOMAIN range : range[i] \notin Digits})
    IN  [row |-> DigitsToInt(SubSeq(range, k + 1, Len(range))) - 1,
         col |-> a1_col(SubSeq(range, 1, k), 0) - 1]

\* A grid with cell (row, col) set to v, grown with empty cells to hold it.
set_cell(values, row, col, v) ==
    LET nrows == IF Len(values) > row THEN Len(values) ELSE row + 1
        old(i) == IF i <= Len(values) THEN values[i] ELSE <<>>
        ncols == IF Len(old(row + 1)) > col THEN Len(old(row + 1)) ELSE col + 1
    IN  [i \in 1..nrows |->
            IF i # row + 1 THEN old(i)
            ELSE [j \in 1..ncols |->
                    IF j = col + 1 THEN v
                    ELSE IF j <= Len(old(i)) THEN old(i)[j] ELSE <<>>]]

\* values_batch_update on the remote table: each range takes its value, in
\* the order of the data.
RECURSIVE apply_values(_, _, _)
apply_values(values, data, i) ==
    IF i > Len(data) THEN values
    ELSE LET at == a1_parse(data[i].range)
         IN  apply_values(set_cell(values, at.row, at.col, data[i].value),
                          data, i + 1)

\* batch_update on the format snapshot of a table (which starts at row 2):
\* each repeatCell sets the background of its cell.
set_background(formats, req) ==
    LET r     == req.startRowIndex
        c     == req.startColumnIndex
        nrows == IF Len(formats) >= r THEN Len(formats) ELSE r
        old(i) == IF i <= Len(formats) THEN formats[i].values ELSE <<>>
        ncols == IF Len(old(r)) > c THEN Len(old(r)) ELSE c + 1
    IN  [i \in 1..nrows |->
            IF i # r THEN (IF i <= Len(formats) THEN formats[i] ELSE FmtRowNoValues)
            ELSE FmtRow([j \in 1..ncols |->
                    IF j = c + 1 THEN FmtCell(req.backgroundColor)
                    ELSE IF j <= Len(old(i)) THEN old(i)[j] ELSE FmtCellEmpty])]

RECURSIVE apply_paints(_, _, _)
apply_paints(formats, reqs, i) ==
    IF i > Len(reqs) THEN formats
    ELSE apply_paints(set_background(formats, reqs[i]), reqs, i + 1)

\* What the window and the two tables hold after an operation: st is
\* load_and_compare's outcome, plan the lists of _run, reqs the later calls.
Outcome(st, plan, reqs, sv, tv, sf, tf, report, diff_report) ==
    [ error |-> st.error, s_h |-> st.s_h, s_r |-> st.s_r, t_h |-> st.t_h,
      t_r |-> st.t_r, result |-> st.result, requests |-> st.requests \o reqs,
      plan |-> plan, src_values |-> sv, tgt_values |-> tv,
      s_formats |-> sf, t_formats |-> tf,
      color_report |-> report, color_diff_report |-> diff_report ]

\* _check_only
check_only(key, included, stype, sid, sfile, tid, sv, tv, sf, tf) ==
    Outcome(load_and_compare(key, included, stype, sid, sfile, tid, sv, tv),
            EmptyPlan, <<>>, sv, tv, sf, tf, <<>>, <<>>)

\* _check_color_only once the tables are loaded and compared (ui.py 442-468).
check_color_loaded(st, is_sheet, included, sv, tv, sf, tf) ==
    IF st.error # ""
    THEN Outcome(st, EmptyPlan, <<>>, sv, tv, sf, tf, <<>>, <<>>)
    ELSE Outcome(st, EmptyPlan,
                 <<Request("fetch_formats", "target")>>
                 \o (IF is_sheet THEN <<Request("fetch_formats", "source")>>
                     ELSE <<>>),
                 sv, tv, sf, tf,
                 check_color_status(st.result, tf, st.t_h, included),
                 IF is_sheet
                 THEN compare_sheet_colors(st.result, sf, tf, st.s_h, st.t_h,
                                           included)
                 ELSE <<>>)

\* _check_color_only
check_color_only(key, included, stype, sid, sfile, tid, sv, tv, sf, tf) ==
    check_color_loaded(
        load_and_compare(key, included, stype, sid, sfile, tid, sv, tv),
        stype = "Google Sheet", included, sv, tv, sf, tf)

\* _run painting the key cell of every paired row, different or not.
run_loaded_paints_every_pair(sync, st, is_source_sheet, marker, color, sv, tv, sf, tf) ==
    IF st.error # ""
    THEN Outcome(st, EmptyPlan, <<>>, sv, tv, sf, tf, <<>>, <<>>)
    ELSE LET keys == sorted(DOMAIN st.result.row_mapping)
             plan == [EmptyPlan EXCEPT
                        !.tgt_color_reqs =
                            [i \in 1..Len(keys) |->
                                create_color_request(
                                    "target", st.result.row_mapping[keys[i]][2] - 1,
                                    0, color)]]
         IN  Outcome(st, plan,
                     <<Request("open_sheet", "target")>> \o send_requests(plan, sync),
                     sv, tv, sf, apply_paints(tf, plan.tgt_color_reqs, 1),
                     <<>>, <<>>)

\* _run once the tables are loaded and compared (ui.py 479-571).
run_loaded(sync, st, is_source_sheet, marker, color, sv, tv, sf, tf) ==
    LET cx == [ sync |-> sync, is_source_sheet |-> is_source_sheet,
                update_marker_col |-> Strip(marker), base_color |-> color,
                tgt_header_map |-> hmap(st.t_h), src_header_map |-> hmap(st.s_h) ]
        plan  == plan_loop(EmptyPlan, st.result.differences, 1, cx)
        opens == <<Request("open_sheet", "target")>>
                 \o (IF is_source_sheet THEN <<Request("open_sheet", "source")>>
                     ELSE <<>>)
    IN  IF st.error # "" \/ st.result.differences = <<>>
        THEN Outcome(st, EmptyPlan, <<>>, sv, tv, sf, tf, <<>>, <<>>)
        ELSE Outcome(st, plan, opens \o send_requests(plan, sync),
                     IF sync
                     THEN apply_values(sv, batch_update_values_data(plan.src_value_updates), 1)
                     ELSE sv,
                     IF sync
                     THEN apply_values(tv, batch_update_values_data(plan.value_updates), 1)
                     ELSE tv,
                     apply_paints(sf, plan.src_color_reqs, 1),
                     apply_paints(tf, plan.tgt_color_reqs, 1),
                     <<>>, <<>>)

\* _run(sync)
run(sync, key, included, stype, sid, sfile, tid, marker, color, sv, tv, sf, tf) ==
    run_loaded(sync,
               load_and_compare(key, included, stype, sid, sfile, tid, sv, tv),
               stype = "Google Sheet", marker, color, sv, tv, sf, tf)

-----------------------------------------------------------------------------
(* Inputs of the operations of the window                                  *)

\* Pairs of remote tables, header row first: one differing cell and a marker
\* candidate (Ign) only in the source; another column and row order, Ign on
\* both sides; Ign only in the target, whose key is repeated; a target row
\* too short for the compared columns; no difference; no key header in the
\* source; none in the target.
RunTables ==
    { [ src |-> << <<ID, Val, Ign>>,
                   <<<<"1">>, <<"a">>, <<"x">>>>, <<<<"2">>, <<"c">>, <<"y">>>> >>,
        tgt |-> << <<ID, <<" ", "V", "a", "l", " ">>>>,
                   <<<<"1">>, <<"b">>>>, <<<<"2">>, <<"c">>>> >> ],
      [ src |-> << <<ID, Val, Ign>>,
                   <<<<"1">>, <<"a">>, <<"x">>>>, <<<<"2">>, <<"b">>, <<"y">>>> >>,
        tgt |-> << <<Val, ID, Ign>>,
                   <<<<"z">>, <<"2">>, <<"y">>>>, <<<<"a">>, <<"1">>, <<"q">>>> >> ],
      [ src |-> << <<ID, Val>>, <<<<"1">>, <<"1", ",", "5">>>> >>,
        tgt |-> << <<ID, Val, Ign>>,
                   <<<<"1">>, <<"b">>, <<"m">>>>, <<<<"1">>, <<"c">>, <<"n">>>> >> ],
      [ src |-> << <<ID, Val, Ign>>, <<<<"1">>, <<"a">>, <<"x">>>> >>,
        tgt |-> << <<ID, Val, Ign>>, <<<<"1">>>> >> ],
      [ src |-> << <<ID, Val>>, <<<<"1">>, <<"1", ".", "0">>>> >>,
        tgt |-> << <<ID, Val>>, <<<<" ", "1">>, <<"1">>>> >> ],
      [ src |-> << <<Val, Ign>>, <<<<"a">>, <<"x">>>> >>,
        tgt |-> << <<ID, Val>>, <<<<"1">>, <<"a">>>> >> ],
      [ src |-> << <<ID, Val>>, <<<<"1">>, <<"a">>>> >>,
        tgt |-> << <<Val, Ign>>, <<<<"a">>, <<"x">>>> >> ] }

\* The source kind, the identifiers and the key header of the form: complete
\* for a sheet and for a file, then with one of them missing.
Forms ==
    { [src_type |-> "Google Sheet", src_id |-> "S", src_file |-> "", tgt_id |-> "T", key |-> ID],
      [src_type |-> "TSV File", src_id |-> "", src_file |-> "F", tgt_id |-> "T", key |-> ID],
      [src_type |-> "Google Sheet", src_id |-> "", src_file |-> "", tgt_id |-> "T", key |-> ID],
      [src_type |-> "TSV File", src_id |-> "", src_file |-> "", tgt_id |-> "T", key |-> ID],
      [src_type |-> "Google Sheet", src_id |-> "S", src_file |-> "", tgt_id |-> "", key |-> ID],
      [src_type |-> "Google Sheet", src_id |-> "S", src_file |-> "", tgt_id |-> "T", key |-> <<>>] }

\* The checked columns: the lists of the comparison, or none checked.
CheckedLists == IncludedLists \cup {<<>>}

\* The marker combo: empty, or a header of the source.
MarkerChoices == {<<>>, Ign, Val}

BaseColors == {BRIGHT_COLORS.Yellow, BRIGHT_COLORS.Orange}

MaxOps == 2

InitRun ==
    /\ \E tb \in RunTables : src_values = tb.src /\ tgt_values = tb.tgt
    /\ \E f \in Forms :
          /\ src_type = f.src_type /\ src_id = f.src_id
          /\ src_file = f.src_file /\ tgt_id = f.tgt_id /\ key_h = f.key
    /\ included_h \in CheckedLists
    /\ update_marker_col \in MarkerChoices
    /\ base_color \in BaseColors
    /\ s_h = <<>> /\ s_r = <<>> /\ t_h = <<>> /\ t_r = <<>>
    /\ s_formats = <<>>
    /\ t_formats = <<>>
    /\ result = NoResult
    /\ reverse = NoResult
    /\ error = ""
    /\ color_report = <<>>
    /\ color_diff_report = <<>>
    /\ c1 = NoColor
    /\ c2 = NoColor
    /\ matched = FALSE
    /\ matched_rev = FALSE
    /\ pc = "start"
    /\ value_updates = <<>> /\ src_value_updates = <<>>
    /\ tgt_color_reqs = <<>> /\ src_color_reqs = <<>>
    /\ requests = <<>>
    /\ ops = <<>>
    /\ RetryIdle /\ NormIdle /\ BusyIdle

\* The end of an operation: its locals, its plans and calls, and the two
\* remote tables as the calls left them.
Finish(kind, out) ==
    /\ ops' = Append(ops, kind)
    /\ pc' = IF out.error # "" THEN "failed" ELSE "done"
    /\ error' = out.error
    /\ s_h' = out.s_h /\ s_r' = out.s_r /\ t_h' = out.t_h /\ t_r' = out.t_r
    /\ result' = out.result
    /\ requests' = out.requests
    /\ value_updates' = out.plan.value_updates
    /\ src_value_updates' = out.plan.src_value_updates
    /\ tgt_color_reqs' = out.plan.tgt_color_reqs
    /\ src_color_reqs' = out.plan.src_color_reqs
    /\ src_values' = out.src_values
    /\ tgt_values' = out.tgt_values
    /\ s_formats' = out.s_formats
    /\ t_formats' = out.t_formats
    /\ color_report' = out.color_report
    /\ color_diff_report' = out.color_diff_report
    /\ UNCHANGED <<key_h, included_h, reverse, c1, c2, matched, matched_rev,
                   src_type, src_id, src_file, tgt_id, update_marker_col,
                   base_color, retry_vars, norm_vars, busy_vars>>

\* check_btn.clicked
CheckOnly ==
    /\ Len(ops) < MaxOps
    /\ Finish("check",
              check_only(key_h, included_h, src_type, src_id, src_file, tgt_id,
                         src_values, tgt_values, s_formats, t_formats))

\* check_color_btn.clicked
CheckColorOnly ==
    /\ Len(ops) < MaxOps
    /\ Finish("color_check",
              check_color_only(key_h, included_h, src_type, src_id, src_file,
                               tgt_id, src_values, tgt_values, s_formats,
                               t_formats))

\* highlight_btn.clicked: _run(sync=False)
Highlight ==
    /\ Len(ops) < MaxOps
    /\ Finish("highlight",
              run(FALSE, key_h, included_h, src_type, src_id, src_file, tgt_id,
                  update_marker_col, base_color, src_values, tgt_values,
                  s_formats, t_formats))

\* sync_btn.clicked: _run(sync=True)
Sync ==
    /\ Len(ops) < MaxOps
    /\ Finish("sync",
              run(TRUE, key_h, included_h, src_type, src_id, src_file, tgt_id,
                  update_marker_col, base_color, src_values, tgt_values,
                  s_formats, t_formats))

NextRun == CheckOnly \/ CheckColorOnly \/ Highlight \/ Sync

SpecRun == InitRun /\ [][NextRun]_vars

-----------------------------------------------------------------------------
(* Colour dimming (logic.py 22-23, 71-100, ui.py 606-650)                  *)

\* Exact fractions n / d in lowest terms, d > 0: the reals the floats of the
\* colour arithmetic stand for.
RECURSIVE GCD(_, _)
GCD(a, b) == IF b = 0 THEN a ELSE GCD(b, a % b)

Rat(n, d) ==
    LET g == GCD(IF n < 0 THEN 0 - n ELSE n, d)
    IN  IF n = 0 THEN [n |-> 0, d |-> 1] ELSE [n |-> n \div g, d |-> d \div g]

RAdd(x, y) == Rat(x.n * y.d + y.n * x.d, x.d * y.d)

RSub(x, y) == Rat(x.n * y.d - y.n * x.d, x.d * y.d)

RMul(x, y) == Rat(x.n * y.n, x.d * y.d)

\* x / y for y > 0
RDiv(x, y) == Rat(x.n * y.d, x.d * y.n)

RLess(x, y) == x.n * y.d < y.n * x.d

RMax(x, y) == IF RLess(x, y) THEN y ELSE x

RMin(x, y) == IF RLess(x, y) THEN x ELSE y

\* int(x) for x >= 0
RInt(x) == x.n \div x.d

\* A channel of a fetched colour, stored in thousandths.
Thousandths(k) == Rat(k, 1000)

\* DIM_BLEND_FACTOR = 0.30
DIM_BLEND_FACTOR == Rat(30, 100)

\* WHITE, as the colour of a paint request.
WHITE == Color([red |-> Rat(1, 1), green |-> Rat(1, 1), blue |-> Rat(1, 1)])

rgb_to_hsv(r, g, b) ==
    LET max_c == RMax(r, RMax(g, b))
        min_c == RMin(r, RMin(g, b))
        diff  == RSub(max_c, min_c)
        s     == IF max_c.n > 0 THEN RDiv(diff, max_c) ELSE Rat(0, 1)
        h0    == IF max_c = r THEN RDiv(RSub(g, b), diff)
                 ELSE IF max_c = g THEN RAdd(Rat(2, 1), RDiv(RSub(b, r), diff))
                 ELSE RAdd(Rat(4, 1), RDiv(RSub(r, g), diff))
        h1    == RMul(h0, Rat(60, 1))
        h     == IF diff.n > 0
                 THEN (IF h1.n < 0 THEN RAdd(h1, Rat(360, 1)) ELSE h1)
                 ELSE Rat(0, 1)
    IN  [h |-> h, s |-> s, v |-> max_c]

hsv_to_rgb(h, s, v) ==
    LET h6  == RDiv(h, Rat(60, 1))
        i   == RInt(h6)
        f   == RSub(h6, Rat(i, 1))
        one == Rat(1, 1)
        p   == RMul(v, RSub(one, s))
        q   == RMul(v, RSub(one, RMul(s, f)))
        t   == RMul(v, RSub(one, RMul(s, RSub(one, f))))
    IN  IF s.n = 0 THEN <<v, v, v>>
        ELSE IF i = 0 THEN <<v, t, p>>
        ELSE IF i = 1 THEN <<q, v, p>>
        ELSE IF i = 2 THEN <<p, v, t>>
        ELSE IF i = 3 THEN <<p, q, v>>
        ELSE IF i = 4 THEN <<t, p, v>>
        ELSE <<v, p, q>>

\* The mutation of C22: every tier darkens by 0.18.
dim_sv_one_tier(s, v) ==
    [s |-> RMax(Rat(0, 1), RSub(s, DIM_BLEND_FACTOR)),
     v |-> RMax(Rat(0, 1), RMin(Rat(1, 1), RSub(v, Rat(18, 100))))]

\* The new saturation and value of a colour of saturation s and value v
\* (ui.py 641-646).
dim_sv(s, v) ==
    LET new_s == RMax(Rat(0, 1), RSub(s, DIM_BLEND_FACTOR))
        new_v == IF RLess(Rat(85, 100), s) THEN RSub(v, Rat(18, 100))
                 ELSE IF RLess(Rat(45, 100), s) THEN RSub(v, Rat(5, 100))
                 ELSE IF RLess(Rat(15, 100), s) THEN RAdd(v, Rat(5, 100))
                 ELSE RMin(Rat(1, 1),
                           RAdd(v, RMul(RSub(Rat(15, 100), new_s), Rat(18, 10))))
    IN  [s |-> new_s, v |-> RMax(Rat(0, 1), RMin(Rat(1, 1), new_v))]

\* From the hue, saturation and value of a cell's colour to its new colour
\* (ui.py 640-648).
dim_hsv(hsv) ==
    LET new == dim_sv(hsv.s, hsv.v)
        rgb == hsv_to_rgb(hsv.h, new.s, new.v)
    IN  IF RLess(new.s, Rat(1, 100)) THEN WHITE
        ELSE Color([red |-> rgb[1], green |-> rgb[2], blue |-> rgb[3]])

\* The new colour of a non-white cell (ui.py 638-648).
dim_color(color) ==
    dim_hsv(rgb_to_hsv(Thousandths(channel_of(color, "red")),
                       Thousandths(channel_of(color, "green")),
                       Thousandths(channel_of(color, "blue"))))

\* The two loops of _dim_colors over the snapshot: one request per cell
\* that has a format and is not white, rows counted from 1 and columns
\* from 0, in reading order.
dim_requests(sheet_id, all_row_data) ==
    LET cell_reqs(r_idx, cells) ==
            LET F[c \in 0..Len(cells)] ==
                    IF c = 0 THEN <<>>
                    ELSE IF cells[c].has_format /\ ~is_white(cells[c].bg)
                    THEN Append(F[c - 1],
                                create_color_request(sheet_id, r_idx, c - 1,
                                                     dim_color(cells[c].bg)))
                    ELSE F[c - 1]
            IN  F[Len(cells)]
        G[r \in 0..Len(all_row_data)] ==
            IF r = 0 THEN <<>>
            ELSE IF all_row_data[r].has_values
            THEN G[r - 1] \o cell_reqs(r, all_row_data[r].values)
            ELSE G[r - 1]
    IN  G[Len(all_row_data)]

\* _dim_colors(kind) with a client at hand: formats is the remote sheet's
\* backgrounds, fetched tells whether fetch_formats got them (it returns []
\* when its call failed), sent whether batch_update went through.
dim_colors(kind, stype, sid, tid, formats, fetched, sent) ==
    LET sheet_id     == IF kind = "source" THEN sid ELSE tid
        all_row_data == IF fetched THEN formats ELSE <<>>
        reqs         == dim_requests(kind, all_row_data)
        out(err, made, color_requests, fmts) ==
            [error |-> err, requests |-> made,
             color_requests |-> color_requests, formats |-> fmts]
    IN  IF kind = "source" /\ stype # "Google Sheet"
        THEN out("Cannot dim colors on a non-sheet source.", <<>>, <<>>, formats)
        ELSE IF sheet_id = ""
        THEN out(IF kind = "source" THEN "The source sheet/tab is not specified."
                 ELSE "The target sheet/tab is not specified.",
                 <<>>, <<>>, formats)
        ELSE IF all_row_data = <<>>
        THEN out("", <<Request("open_sheet", kind), Request("fetch_formats", kind)>>,
                 <<>>, formats)
        ELSE IF reqs = <<>>
        THEN out("", <<Request("open_sheet", kind), Request("fetch_formats", kind)>>,
                 <<>>, formats)
        ELSE out(IF sent THEN "" ELSE "Dim Error",
                 <<Request("open_sheet", kind), Request("fetch_formats", kind),
                   Request("batch_update", kind)>>,
                 reqs,
                 IF sent THEN apply_paints(formats, reqs, 1) ELSE formats)

-----------------------------------------------------------------------------
(* Inputs of the dimming                                                   *)

\* Backgrounds by the tier of their saturation, two to a row.  Full: red
\* and a dark red, magenta and blue, lime and a colour of saturation 0.6.
\* Lower: 0.375 and 0.3, 0.32 and a pale colour (0.1), a near-grey (0.05)
\* and a grey.
DimColorRows ==
    { <<Color([red |-> 1000]), Color([red |-> 100])>>,
      <<BRIGHT_COLORS.Magenta, BRIGHT_COLORS.Blue>>,
      <<BRIGHT_COLORS.Lime, Color([red |-> 1000, green |-> 400, blue |-> 400])>>,
      <<Color([red |-> 500, green |-> 800, blue |-> 500]),
        Color([red |-> 420, green |-> 420, blue |-> 600])>>,
      <<Color([red |-> 1000, green |-> 680, blue |-> 680]),
        Color([red |-> 1000, green |-> 900, blue |-> 950])>>,
      <<Color([red |-> 500, green |-> 475, blue |-> 475]),
        Color([red |-> 500, green |-> 500, blue |-> 500])>> }

DimColors == UNION {Range(r) : r \in DimColorRows}

\* Rows of the target's snapshot: two coloured cells; a coloured cell first
\* and last with a cell without format between; plain cells alone; no
\* 'values'.
TgtDimRows ==
    {FmtRow(<<FmtCell(r[1]), FmtCell(r[2])>>) : r \in DimColorRows}
    \cup { FmtRow(<<FmtCell(BRIGHT_COLORS.Orange), FmtCellEmpty,
                   FmtCell(BRIGHT_COLORS.Cyan)>>),
           FmtRow(<<FmtCell(NearWhite), FmtCell(White), FmtCell(NoColor)>>),
           FmtRowNoValues }

\* The longest snapshot of the target.
MaxDimRows == 2

\* Snapshots of a sheet source: none, one yellow cell, a white row and a
\* yellow cell.
SrcDimSnapshots ==
    { <<>>,
      <<FmtRow(<<FmtCell(BRIGHT_COLORS.Yellow)>>)>>,
      <<FmtRow(<<FmtCell(White)>>), FmtRow(<<FmtCell(BRIGHT_COLORS.Yellow)>>)>> }

\* Where the window points: a sheet source, a file source, no target.
DimForms ==
    { [src_type |-> "Google Sheet", src_id |-> "S", tgt_id |-> "T"],
      [src_type |-> "TSV File", src_id |-> "", tgt_id |-> "T"],
      [src_type |-> "Google Sheet", src_id |-> "", tgt_id |-> ""] }

InitDim ==
    /\ \E f \in DimForms :
          src_type = f.src_type /\ src_id = f.src_id /\ tgt_id = f.tgt_id
    /\ s_formats \in SrcDimSnapshots
    /\ t_formats \in SeqsUpTo(TgtDimRows, MaxDimRows)
    /\ src_file = ""
    /\ update_marker_col = <<>>
    /\ base_color = NoColor
    /\ src_values = <<>> /\ tgt_values = <<>>
    /\ value_updates = <<>> /\ src_value_updates = <<>>
    /\ tgt_color_reqs = <<>> /\ src_color_reqs = <<>>
    /\ requests = <<>>
    /\ ops = <<>>
    /\ s_h = <<>> /\ s_r = <<>> /\ t_h = <<>> /\ t_r = <<>>
    /\ key_h = ID
    /\ included_h = <<>>
    /\ result = NoResult
    /\ reverse = NoResult
    /\ error = ""
    /\ color_report = <<>>
    /\ color_diff_report = <<>>
    /\ c1 = NoColor
    /\ c2 = NoColor
    /\ matched = FALSE
    /\ matched_rev = FALSE
    /\ pc = "start"
    /\ RetryIdle /\ NormIdle /\ BusyIdle

\* src_dim_colors_btn.clicked: _dim_colors("source"), once per window.
DimSource ==
    /\ "dim_source" \notin Range(ops)
    /\ \E fetched \in BOOLEAN, sent \in BOOLEAN :
          \E out \in {dim_colors("source", src_type, src_id, tgt_id, s_formats,
                                 fetched, sent)} :
              /\ ops' = Append(ops, "dim_source")
              /\ pc' = IF out.error # "" THEN "failed" ELSE "done"
              /\ error' = out.error
              /\ requests' = out.requests
              /\ src_color_reqs' = out.color_requests
              /\ s_formats' = out.formats
    /\ UNCHANGED <<s_h, s_r, t_h, t_r, key_h, included_h, t_formats, result,
                   reverse, color_report, color_diff_report, c1, c2, matched,
                   matched_rev, src_type, src_id, src_file, tgt_id,
                   update_marker_col, base_color, src_values, tgt_values,
                   value_updates, src_value_updates, tgt_color_reqs,
                   retry_vars, norm_vars, busy_vars>>

\* tgt_dim_colors_btn.clicked: _dim_colors("target"), once per window.
DimTarget ==
    /\ "dim_target" \notin Range(ops)
    /\ \E fetched \in BOOLEAN, sent \in BOOLEAN :
          \E out \in {dim_colors("target", src_type, src_id, tgt_id, t_formats,
                                 fetched, sent)} :
              /\ ops' = Append(ops, "dim_target")
              /\ pc' = IF out.error # "" THEN "failed" ELSE "done"
              /\ error' = out.error
              /\ requests' = out.requests
              /\ tgt_color_reqs' = out.color_requests
              /\ t_formats' = out.formats
    /\ UNCHANGED <<s_h, s_r, t_h, t_r, key_h, included_h, s_formats, result,
                   reverse, color_report, color_diff_report, c1, c2, matched,
                   matched_rev, src_type, src_id, src_file, tgt_id,
                   update_marker_col, base_color, src_values, tgt_values,
                   value_updates, src_value_updates, src_color_reqs,
                   retry_vars, norm_vars, busy_vars>>

NextDim == DimSource \/ DimTarget

SpecDim == InitDim /\ [][NextDim]_vars

-----------------------------------------------------------------------------
(* The retry wrapper of the sheet client (logic.py 21, 117-173)            *)

\* Times are in milliseconds.  The outcome of one remote call is "ok", an
\* APIError with the text str(e), or an exception of another class.

MaxAttempts == 5

WRITE_DELAY == 200

Ok == [kind |-> "ok", text |-> <<>>]

APIError(text) == [kind |-> "api_error", text |-> text]

OtherError == [kind |-> "other", text |-> <<>>]

\* code in err_str
Contains(s, sub) ==
    \E i \in 1..(Len(s) - Len(sub) + 1) : SubSeq(s, i, i + Len(sub) - 1) = sub

\* Every APIError taken for one worth a retry.
is_transient_always(err_str) == TRUE

\* any(code in err_str for code in ["429", "500", "503"])
is_transient(err_str) ==
    \E code \in {<<"4", "2", "9">>, <<"5", "0", "0">>, <<"5", "0", "3">>} :
        Contains(err_str, code)

RECURSIVE Pow2(_)
Pow2(n) == IF n = 0 THEN 1 ELSE 2 * Pow2(n - 1)

\* (2 ** attempt) + random.uniform(0, 1), the jitter in thousandths.
backoff(n, jitter) == Pow2(n) * 1000 + jitter

\* How the client method that made the call ends: fetch_formats catches
\* every exception and returns [], the other three let it through.
client_finish(op, ok) ==
    IF ok THEN "returned"
    ELSE IF op = "fetch_formats" THEN "returned_empty"
    ELSE "raised"

\* The methods of SheetsClient that go through _retry_api.
ClientOps == {"fetch_values", "fetch_formats", "batch_update", "batch_update_values"}

\* What a remote call may do: succeed, fail with a rate-limit or an
\* unavailable error, fail with a permission error, fail outside the API.
CallOutcomes ==
    { Ok, APIError(<<"4", "2", "9">>), APIError(<<"5", "0", "3">>),
      APIError(<<"4", "0", "3">>), OtherError }

\* Values of random.uniform(0, 1) in thousandths.
Jitters == {0, 999}

InitRetry ==
    /\ client_op \in ClientOps
    /\ outcomes = <<>> /\ attempt = 0 /\ calls = 0 /\ sleeps = <<>>
    /\ returned = FALSE /\ raised = ""
    /\ client_end = ""
    /\ pc = "calling"
    /\ s_h = <<>> /\ s_r = <<>> /\ t_h = <<>> /\ t_r = <<>>
    /\ key_h = ID
    /\ included_h = <<>>
    /\ s_formats = <<>>
    /\ t_formats = <<>>
    /\ result = NoResult
    /\ reverse = NoResult
    /\ error = ""
    /\ color_report = <<>>
    /\ color_diff_report = <<>>
    /\ c1 = NoColor
    /\ c2 = NoColor
    /\ matched = FALSE
    /\ matched_rev = FALSE
    /\ UiIdle /\ NormIdle /\ BusyIdle

\* One pass of the loop of _retry_api: the delay, the call, and on a
\* transient APIError the wait; the pass that ends the loop also ends the
\* client method (after the last pass the bare raise of line 130 finds no
\* active exception, which is a RuntimeError).
RetryAttempt ==
    /\ pc = "calling"
    /\ attempt < MaxAttempts
    /\ \E out \in CallOutcomes, jitter \in Jitters :
          LET transient == out.kind = "api_error" /\ is_transient(out.text)
              again     == transient /\ attempt + 1 < MaxAttempts
          IN  /\ outcomes' = Append(outcomes, out)
              /\ calls' = calls + 1
              /\ sleeps' =
                    sleeps \o <<[kind |-> "delay", ms |-> WRITE_DELAY]>>
                    \o (IF transient
                        THEN <<[kind |-> "backoff", ms |-> backoff(attempt, jitter)]>>
                        ELSE <<>>)
              /\ attempt' = IF transient THEN attempt + 1 ELSE attempt
              /\ returned' = (out.kind = "ok")
              /\ raised' =
                    IF out.kind = "ok" THEN ""
                    ELSE IF out.kind = "other" THEN "Exception"
                    ELSE IF ~transient THEN "APIError"
                    ELSE IF again THEN ""
                    ELSE "RuntimeError"
              /\ pc' = IF again THEN "calling" ELSE "ended"
              /\ client_end' =
                    IF again THEN "" ELSE client_finish(client_op, out.kind = "ok")
    /\ UNCHANGED <<s_h, s_r, t_h, t_r, key_h, included_h, s_formats, t_formats,
                   result, reverse, error, color_report, color_diff_report,
                   c1, c2, matched, matched_rev, client_op, ui_vars, norm_vars, busy_vars>>

NextRetry == RetryAttempt

SpecRetry == InitRetry /\ [][NextRetry]_vars

-----------------------------------------------------------------------------
(* The client calls of one operation of the window (ui.py 412-664)         *)

\* The operations that call the client through _retry_api.
OpNames ==
    {"check_only", "check_color_only", "highlight", "sync", "clear_colors",
     "dim_colors"}

\* The methods of the client an operation calls, in order, when every call
\* succeeds: of a run that found differences and stamps a marker on both
\* sides, of a clear and a dim of the target with colours to dim.
op_calls(op, is_sheet) ==
    LET on_source(call) == IF is_sheet THEN <<Request(call, "source")>> ELSE <<>>
        both(call)      == <<Request(call, "target")>> \o on_source(call)
        tables          == on_source("fetch_values")
                           \o <<Request("fetch_values", "target")>>
    IN  CASE op = "check_only"       -> tables
          [] op = "check_color_only" -> tables \o both("fetch_formats")
          [] op = "highlight"        -> tables \o both("batch_update")
          [] op = "sync"             -> tables \o both("batch_update_values")
                                        \o both("batch_update")
          [] op = "clear_colors"     -> <<Request("batch_update", "target")>>
          [] op = "dim_colors"       -> <<Request("fetch_formats", "target"),
                                         Request("batch_update", "target")>>

\* Whether the operation goes on after a client method ended: an exception
\* leaves the try block; _dim_colors returns on an empty snapshot, while
\* _check_color_only uses whatever fetch_formats returned.
goes_on(op, end) ==
    \/ end = "returned"
    \/ end = "returned_empty" /\ op # "dim_colors"

InitCalls ==
    /\ \E op \in OpNames, stype \in {"Google Sheet", "TSV File"} :
          /\ ops = <<op>>
          /\ src_type = stype
          /\ requests = <<op_calls(op, stype = "Google Sheet")[1]>>
          /\ client_op = op_calls(op, stype = "Google Sheet")[1].call
    /\ src_id = "" /\ src_file = "" /\ tgt_id = ""
    /\ update_marker_col = <<>>
    /\ base_color = NoColor
    /\ src_values = <<>> /\ tgt_values = <<>>
    /\ value_updates = <<>> /\ src_value_updates = <<>>
    /\ tgt_color_reqs = <<>> /\ src_color_reqs = <<>>
    /\ outcomes = <<>> /\ attempt = 0 /\ calls = 0 /\ sleeps = <<>>
    /\ returned = FALSE /\ raised = ""
    /\ client_end = ""
    /\ pc = "calling"
    /\ s_h = <<>> /\ s_r = <<>> /\ t_h = <<>> /\ t_r = <<>>
    /\ key_h = ID
    /\ included_h = <<>>
    /\ s_formats = <<>>
    /\ t_formats = <<>>
    /\ result = NoResult
    /\ reverse = NoResult
    /\ error = ""
    /\ color_report = <<>>
    /\ color_diff_report = <<>>
    /\ c1 = NoColor
    /\ c2 = NoColor
    /\ matched = FALSE
    /\ matched_rev = FALSE
    /\ NormIdle /\ BusyIdle

\* The operation's next statement that calls the client.
NextCall ==
    /\ pc = "ended"
    /\ goes_on(ops[1], client_end)
    /\ Len(requests) < Len(op_calls(ops[1], src_type = "Google Sheet"))
    /\ \E req \in {op_calls(ops[1], src_type = "Google Sheet")[Len(requests) + 1]} :
          /\ requests' = Append(requests, req)
          /\ client_op' = req.call
    /\ outcomes' = <<>> /\ attempt' = 0 /\ calls' = 0 /\ sleeps' = <<>>
    /\ returned' = FALSE /\ raised' = ""
    /\ client_end' = ""
    /\ pc' = "calling"
    /\ UNCHANGED <<s_h, s_r, t_h, t_r, key_h, included_h, s_formats, t_formats,
                   result, reverse, error, color_report, color_diff_report,
                   c1, c2, matched, matched_rev, src_type, src_id, src_file,
                   tgt_id, update_marker_col, base_color, src_values,
                   tgt_values, value_updates, src_value_updates,
                   tgt_color_reqs, src_color_reqs, ops, norm_vars, busy_vars>>

\* The end of the operation: the except clause shows the exception of the
\* last call, or the operation reports what it did.
FinishOp ==
    /\ pc = "ended"
    /\ \/ ~goes_on(ops[1], client_end)
       \/ Len(requests) = Len(op_calls(ops[1], src_type = "Google Sheet"))
    /\ error' = IF client_end = "raised" THEN raised ELSE ""
    /\ pc' = IF client_end = "raised" THEN "failed" ELSE "done"
    /\ UNCHANGED <<s_h, s_r, t_h, t_r, key_h, included_h, s_formats, t_formats,
                   result, reverse, color_report, color_diff_report,
                   c1, c2, matched, matched_rev, ui_vars, retry_vars,
                   norm_vars, busy_vars>>

NextCalls == RetryAttempt \/ NextCall \/ FinishOp

SpecCalls == InitCalls /\ [][NextCalls]_vars

-----------------------------------------------------------------------------
(* The busy signal of the window (ui.py 43, 226, 255-317, 325-664)         *)

\* busy is connected to _set_busy directly, so an emit has taken effect
\* when it returns: the progress bar is visible and the buttons and inputs
\* are disabled exactly when the last value emitted was True.

\* _connect: nothing without a credentials file; otherwise busy.emit(True),
\* the authorization, which gives a client or fails, and busy.emit(False)
\* in the finally clause.
connect(path, cl, b, ok) ==
    IF path = "" THEN [client |-> cl, busy |-> b]
    ELSE [client |-> IF ok THEN "connected" ELSE "none", busy |-> FALSE]

\* _ensure_client
ensure_client(path, cl, b, ok) ==
    IF cl = "none" THEN connect(path, cl, b, ok) ELSE [client |-> cl, busy |-> b]

\* The handlers whose first statement is busy.emit(True).
EmitFirst ==
    {"check_only", "check_color_only", "highlight", "sync", "populate_key_headers"}

\* The handlers that call _ensure_client before they emit.
EnsureFirst == {"clear_colors", "dim_colors", "load_tabs"}

\* The handlers started in one life of the window.
MaxBusyOps == 2

\* The window after __init__: no client, the progress bar hidden.
InitBusy ==
    /\ busy = FALSE
    /\ client = "none"
    /\ cred_path \in {"", "key.json"}
    /\ src_type \in {"Google Sheet", "TSV File"}
    /\ src_id = "" /\ src_file = "" /\ tgt_id = ""
    /\ update_marker_col = <<>>
    /\ base_color = NoColor
    /\ src_values = <<>> /\ tgt_values = <<>>
    /\ value_updates = <<>> /\ src_value_updates = <<>>
    /\ tgt_color_reqs = <<>> /\ src_color_reqs = <<>>
    /\ requests = <<>>
    /\ ops = <<>>
    /\ pc = "idle"
    /\ s_h = <<>> /\ s_r = <<>> /\ t_h = <<>> /\ t_r = <<>>
    /\ key_h = ID
    /\ included_h = <<>>
    /\ s_formats = <<>>
    /\ t_formats = <<>>
    /\ result = NoResult
    /\ reverse = NoResult
    /\ error = ""
    /\ color_report = <<>>
    /\ color_diff_report = <<>>
    /\ c1 = NoColor
    /\ c2 = NoColor
    /\ matched = FALSE
    /\ matched_rev = FALSE
    /\ RetryIdle /\ NormIdle

\* What no handler of the window touches here.
busy_frame ==
    <<s_h, s_r, t_h, t_r, key_h, included_h, s_formats, t_formats, result,
      reverse, error, color_report, color_diff_report, c1, c2, matched,
      matched_rev, src_type, src_id, src_file, tgt_id, update_marker_col,
      base_color, src_values, tgt_values, value_updates, src_value_updates,
      tgt_color_reqs, src_color_reqs, requests, cred_path, retry_vars,
      norm_vars>>

\* connect_btn.clicked: _connect, the whole handler.
Connect ==
    /\ pc = "idle"
    /\ Len(ops) < MaxBusyOps
    /\ \E ok \in BOOLEAN :
          \E c \in {connect(cred_path, client, busy, ok)} :
              client' = c.client /\ busy' = c.busy
    /\ ops' = Append(ops, "connect")
    /\ pc' = "idle"
    /\ UNCHANGED busy_frame

\* A handler from its start to its own busy.emit(True): at once for the
\* handlers of EmitFirst; after _ensure_client for the others, which return
\* without emitting when there is no client.
Begin ==
    /\ pc = "idle"
    /\ Len(ops) < MaxBusyOps
    /\ \E op \in EmitFirst \cup EnsureFirst, ok \in BOOLEAN :
          /\ ops' = Append(ops, op)
          /\ IF op \in EmitFirst
             THEN busy' = TRUE /\ pc' = "load_source" /\ client' = client
             ELSE \E e \in {ensure_client(cred_path, client, busy, ok)} :
                      /\ client' = e.client
                      /\ busy' = IF e.client = "none" THEN e.busy ELSE TRUE
                      /\ pc' = IF e.client = "none" THEN "idle" ELSE "working"
    /\ UNCHANGED busy_frame

\* _load_table(kind) inside a handler of EmitFirst: the target and a sheet
\* source go through _ensure_client; without a client the table is empty
\* and the handler goes on.
LoadTable ==
    /\ pc \in {"load_source", "load_target"}
    /\ \E ok \in BOOLEAN :
          \E e \in { IF pc = "load_target" \/ src_type = "Google Sheet"
                     THEN ensure_client(cred_path, client, busy, ok)
                     ELSE [client |-> client, busy |-> busy] } :
              client' = e.client /\ busy' = e.busy
    /\ pc' = IF pc = "load_source" /\ ops[Len(ops)] # "populate_key_headers"
             THEN "load_target" ELSE "working"
    /\ UNCHANGED <<ops, busy_frame>>

\* The end of a handler that emitted: by its last statement, by a return or
\* by an exception at the point it has reached; the finally clause emits
\* False, in _dim_colors only when the progress bar is visible.
End ==
    /\ pc # "idle"
    /\ busy' = IF ops[Len(ops)] = "dim_colors"
               THEN (IF busy THEN FALSE ELSE busy)
               ELSE FALSE
    /\ pc' = "idle"
    /\ UNCHANGED <<ops, client, busy_frame>>

NextBusy == Connect \/ Begin \/ LoadTable \/ End

SpecBusy == InitBusy /\ [][NextBusy]_vars

-----------------------------------------------------------------------------
(* One call of the value normalizer (logic.py 57-63)                       *)

\* The longest text drawn freely over NumChars.
MaxNumLen == 4

\* A digit that shows, a digit that may vanish, the two separators, a
\* blank and a currency symbol.
NumChars == {"1", "0", ",", ".", " ", "$"}

NumTexts == SeqsUpTo(NumChars, MaxNumLen)

\* Numbers as sheets and files write them.
NumExamples ==
    {
      <<"1", ",", "2", "3", "4", ".", "5", "0">>,
      <<" ", "1", "2", "3", ".", "4", "5", " ">>,
      <<"1", "2", "3", ".", "4", "5", " ">>,
      <<"1", ".", "2", "3", "4", ",", "5", "0">>,
      <<"1", "2", "3", "4", ".", "5">>,
      <<"1", "2", "3", "4", ",", "5", "0">>,
      <<"$", "1", ",", "2", "3", "4", ".", "5", "0">>,
      <<"$", " ", "1", "2", "3", "4", ".", "5">>, <<"1", "0">>,
      <<"1", "0", ".", "0">>, <<"1", "0", ",", "0">>,
      <<"1", ",", "2", "3", "4", ",", "5", "6", "7">>,
      <<"1", ".", "2", "3", "4", ".", "5", "6", "7">>,
      <<"1", ".", "2", "3", "4", ".", "5", "6", "7", ",", "5">>,
      <<"0", ",", "5">>, <<".", "5">>
    }

\* The texts a date field may hold: years, months and days with and without
\* a leading zero, and values no month or day takes.
DateParts ==
    {
      <<"2", "0", "2", "3">>, <<"2", "0", "2", "4">>, <<"1">>, <<"0", "1">>,
      <<"2">>, <<"0", "2">>, <<"1", "2">>, <<"1", "3">>, <<"2", "5">>,
      <<"2", "9">>, <<"3", "0">>, <<"3", "1">>, <<"0">>
    }

DateSeps == {"-", ".", "/"}

DateTexts ==
    { a \o <<p>> \o b \o <<q>> \o c :
        a \in DateParts, b \in DateParts, c \in DateParts,
        p \in DateSeps, q \in DateSeps }

DateExamples ==
    {
      <<" ", "2", "0", "2", "3", "-", "1", "2", "-", "2", "5", " ">>,
      <<"2", "5", "/", "1", "2", "/", "2", "0", "2", "3", " ">>,
      <<"2", "0", "2", "3", "-", "2", "-", "3", "0">>,
      <<"2", "9", ".", "0", "2", ".", "2", "0", "2", "4">>,
      <<"2", "9", ".", "0", "2", ".", "2", "0", "2", "3">>,
      <<"1", "2", "/", " ", "5", "/", "2", "0", "2", "3">>,
      <<"1", "/", "2", "/", "2", "3">>,
      <<"2", "0", "2", "3", "-", "1", "2", "-", "2", "5", ".">>,
      <<"2", "0", "2", "3", "1", "2", "2", "5">>
    }

\* Cells a table of numbers holds when it was not read as text.
NumberCells ==
    { PyInt(10), PyInt(0), PyInt(0 - 3), PyInt(20231225),
      PyFloat(100, 1), PyFloat(15, 1), PyFloat(0 - 25, 2),
      PyFloat(123456789, 11), PyFloat(12345, 1) }

\* Texts float() reads that are not written with digits alone: a sign, and
\* the words for not-a-number and infinity; and texts it does not read.
FloatWords ==
    { <<"n", "a", "n">>, <<" ", "N", "a", "N", " ">>, <<"$", "n", "a", "n">>,
      <<"i", "n", "f">>, <<"-", "i", "n", "f">>,
      <<"I", "n", "f", "i", "n", "i", "t", "y">>,
      <<"+", "1", ".", "5">>, <<"-", "1", ".", "5">>, <<"-">>,
      <<"n", "a">>, <<" ", "a", " ", "b", " ">>, <<"a", ",", "b">> }

Cells ==
    {NStr(s) : s \in NumTexts \cup NumExamples \cup DateTexts \cup DateExamples
                     \cup FloatWords}
    \cup NumberCells \cup {PyNone, NaN, Inf(1)}

InitNormalize ==
    /\ cell_val \in Cells
    /\ normalized = NStr(<<>>)
    /\ renormalized = NStr(<<>>)
    /\ pc = "cell"
    /\ s_h = <<>> /\ s_r = <<>> /\ t_h = <<>> /\ t_r = <<>>
    /\ key_h = ID
    /\ included_h = <<>>
    /\ s_formats = <<>>
    /\ t_formats = <<>>
    /\ result = NoResult
    /\ reverse = NoResult
    /\ error = ""
    /\ color_report = <<>>
    /\ color_diff_report = <<>>
    /\ c1 = NoColor
    /\ c2 = NoColor
    /\ matched = FALSE
    /\ matched_rev = FALSE
    /\ UiIdle /\ RetryIdle /\ BusyIdle

\* normalized = normalize_cell(cell_val)
Normalize ==
    /\ pc = "cell"
    /\ normalized' = normalize_cell_value(cell_val)
    /\ pc' = "normalized"
    /\ UNCHANGED <<s_h, s_r, t_h, t_r, key_h, included_h, s_formats, t_formats,
                   result, reverse, error, color_report, color_diff_report,
                   c1, c2, matched, matched_rev, cell_val, renormalized,
                   ui_vars, retry_vars, busy_vars>>

\* renormalized = normalize_cell(normalized)
NormalizeAgain ==
    /\ pc = "normalized"
    /\ renormalized' = normalize_cell_value(normalized)
    /\ pc' = "renormalized"
    /\ UNCHANGED <<s_h, s_r, t_h, t_r, key_h, included_h, s_formats, t_formats,
                   result, reverse, error, color_report, color_diff_report,
                   c1, c2, matched, matched_rev, cell_val, normalized,
                   ui_vars, retry_vars, busy_vars>>

NextNormalize == Normalize \/ NormalizeAgain

SpecNormalize == InitNormalize /\ [][NextNormalize]_vars

-----------------------------------------------------------------------------
(* What the claims speak of, stated on the inputs themselves               *)

\* The 0-based position of header h in a header list without repeats.
ColOf(hs, h) == (CHOOSE i \in DOMAIN hs : hs[i] = h) - 1

\* The trimmed key of a row, <<>> when the key cell is absent or empty.
KeyOfRow(row, hs) ==
    IF ColOf(hs, key_h) < Len(row) THEN Strip(row[ColOf(hs, key_h) + 1]) ELSE <<>>

KeysOf(rows, hs) == {KeyOfRow(rows[i], hs) : i \in DOMAIN rows} \ {<<>>}

\* The positions (1-based, in the data rows) of the rows with key k.
RowsOfKey(rows, hs, k) == {i \in DOMAIN rows : KeyOfRow(rows[i], hs) = k}

LastRowOf(rows, hs, k) ==
    CHOOSE i \in RowsOfKey(rows, hs, k) : \A j \in RowsOfKey(rows, hs, k) : j <= i

\* The raw cell of key k in column h: that of the last row with the key, the
\* empty cell when that row ends before the column.
CellOf(rows, hs, k, h) ==
    LET row == rows[LastRowOf(rows, hs, k)]
    IN  IF ColOf(hs, h) < Len(row) THEN row[ColOf(hs, h) + 1] ELSE <<>>

CommonKeys == KeysOf(s_r, s_h) \cap KeysOf(t_r, t_h)

\* The difference records a result holds for key k, and all of them.
RecordsOf(res, k) ==
    UNION { Range(res.differences[i].diffs) :
            i \in {j \in DOMAIN res.differences : res.differences[j].key = k} }

AllRecords(res) ==
    UNION { Range(res.differences[i].diffs) : i \in DOMAIN res.differences }

Occurrences(seq, x) == Cardinality({i \in DOMAIN seq : seq[i] = x})

-----------------------------------------------------------------------------
(* Claims on the comparison                                                *)

\* C1: for every key present in both tables and every compared column, the
\* result holds a difference record for (key, column) exactly when the
\* normalised source cell and the normalised target cell are unequal (a cell
\* beyond the end of a short row is the empty cell); the record carries the
\* two raw values; and a key is in the differences mapping only with at
\* least one record.
C1_DifferenceIffNormalizedUnequal ==
    pc = "compared" =>
        /\ \A k \in CommonKeys : \A h \in Range(result.compared_headers) :
              LET sv   == CellOf(s_r, s_h, k, h)
                  tv   == CellOf(t_r, t_h, k, h)
                  recs == {r \in RecordsOf(result, k) : r.h = h}
              IN  /\ (recs # {}) <=> (normalize_cell(sv) # normalize_cell(tv))
                  /\ Cardinality(recs) <= 1
                  /\ \A r \in recs : r.s_val = sv /\ r.t_val = tv
        /\ \A i \in DOMAIN result.differences :
              /\ result.differences[i].diffs # <<>>
              /\ result.differences[i].key \in CommonKeys
              /\ \A j \in DOMAIN result.differences :
                    result.differences[j].key = result.differences[i].key => j = i
              /\ \A n \in DOMAIN result.differences[i].diffs :
                    /\ result.differences[i].diffs[n].h \in Range(result.compared_headers)
                    /\ \A m \in DOMAIN result.differences[i].diffs :
                          result.differences[i].diffs[m].h
                              = result.differences[i].diffs[n].h => m = n

\* A comparison where one key has raw cells that differ but are equal once
\* normalised (so no record), and another record stands for a short source row.
C1_Witness ==
    /\ pc = "compared"
    /\ \E k \in CommonKeys : \E h \in Range(result.compared_headers) :
          /\ CellOf(s_r, s_h, k, h) # CellOf(t_r, t_h, k, h)
          /\ RecordsOf(result, k) = {}
    /\ \E k \in CommonKeys : \E r \in RecordsOf(result, k) :
          /\ r.s_val = <<>>
          /\ Len(s_r[LastRowOf(s_r, s_h, k)]) <= ColOf(s_h, r.h)

\* C2: a column the included-headers list leaves out (its entries taken
\* trimmed, as the comparison matches them) is in no difference record, even
\* when its values differ; every record's header is an included header, is in
\* both header lists and is not the key header.
C2_ExcludedColumnNeverReported ==
    pc = "compared" =>
        \A r \in AllRecords(result) :
            /\ r.h \in {Strip(included_h[i]) : i \in DOMAIN included_h}
            /\ r.h \in Range(s_h) \cap Range(t_h)
            /\ r.h # key_h

\* A comparison where a common column left out of the included list differs
\* for a key of both tables.
C2_Witness ==
    /\ pc = "compared"
    /\ \E k \in CommonKeys : \E h \in (Range(s_h) \cap Range(t_h)) \ {key_h} :
          /\ h \notin {Strip(included_h[i]) : i \in DOMAIN included_h}
          /\ normalize_cell(CellOf(s_r, s_h, k, h)) # normalize_cell(CellOf(t_r, t_h, k, h))

\* C3: the comparison ends in the invalid-input error exactly when the key
\* header is absent from the source headers or from the target headers, and
\* then the caller holds no CompareResult; otherwise it returns a result
\* with every field.
C3_KeyHeaderAbsentFails ==
    pc # "start" =>
        /\ (pc = "raised") <=> (key_h \notin Range(s_h) \/ key_h \notin Range(t_h))
        /\ pc = "raised" => result = NoResult /\ error \in {"source", "target"}
        /\ pc = "compared" =>
              /\ error = ""
              /\ DOMAIN result = DOMAIN CompareResult

\* The comparison failed on a target without the key header.
C3_Witness ==
    /\ pc = "raised"
    /\ key_h \in Range(s_h)
    /\ key_h \notin Range(t_h)
    /\ result = NoResult

\* C4: the keys missing in target when A is the source and B the target are
\* exactly the keys missing in source when B is the source and A the target.
C4_DiffSymmetry ==
    (pc = "compared" /\ reverse # NoResult) =>
        /\ result.missing_rows_in_target = reverse.missing_rows_in_source
        /\ Range(result.missing_rows_in_target) = KeysOf(s_r, s_h) \ KeysOf(t_r, t_h)

\* Both directions were compared and each table has a key the other lacks.
C4_Witness ==
    /\ pc = "compared"
    /\ reverse # NoResult
    /\ result.missing_rows_in_target # <<>>
    /\ result.missing_rows_in_source # <<>>

\* C5: row_mapping has an entry for every key of both tables and for no
\* other key, with or without a difference; the entry is (source logical row,
\* target logical row), and every difference record of the key carries it.
C5_RowMappingCoversCommonKeys ==
    pc = "compared" =>
        /\ DOMAIN result.row_mapping = CommonKeys
        /\ \A k \in CommonKeys :
              /\ result.row_mapping[k][1] \in {i + 1 : i \in RowsOfKey(s_r, s_h, k)}
              /\ result.row_mapping[k][2] \in {i + 1 : i \in RowsOfKey(t_r, t_h, k)}
              /\ \A r \in RecordsOf(result, k) :
                    <<r.s_row, r.t_row>> = result.row_mapping[k]

\* A result that pairs the rows of a key without a difference, next to a key
\* with one.
C5_Witness ==
    /\ pc = "compared"
    /\ \E k \in DOMAIN result.row_mapping : RecordsOf(result, k) = {}
    /\ \E k \in DOMAIN result.row_mapping : RecordsOf(result, k) # {}

\* C6: when several rows of a table share a trimmed key, the last one counts:
\* the logical row (position among the data rows + 1, the header being row 1)
\* and the cells in row_mapping and in the records are those of the last
\* occurrence, the key is reported once, and the comparison does not fail.
C6_LastDuplicateWins ==
    (pc # "start" /\ key_h \in Range(s_h) /\ key_h \in Range(t_h)) =>
        /\ pc = "compared"
        /\ \A k \in CommonKeys :
              /\ result.row_mapping[k] =
                    <<LastRowOf(s_r, s_h, k) + 1, LastRowOf(t_r, t_h, k) + 1>>
              /\ \A r \in RecordsOf(result, k) :
                    /\ r.s_val = CellOf(s_r, s_h, k, r.h)
                    /\ r.t_val = CellOf(t_r, t_h, k, r.h)
                    /\ r.s_row = LastRowOf(s_r, s_h, k) + 1
                    /\ r.t_row = LastRowOf(t_r, t_h, k) + 1
              /\ Cardinality({i \in DOMAIN result.differences :
                                 result.differences[i].key = k}) <= 1
        /\ \A k \in KeysOf(s_r, s_h) \ KeysOf(t_r, t_h) :
              Occurrences(result.missing_rows_in_target, k) = 1
        /\ \A k \in KeysOf(t_r, t_h) \ KeysOf(s_r, s_h) :
              Occurrences(result.missing_rows_in_source, k) = 1

\* The source holds one key in two rows with different cells, the key is in
\* the target too, and the record for it shows the later row.
C6_Witness ==
    /\ pc = "compared"
    /\ \E k \in CommonKeys :
          /\ Cardinality(RowsOfKey(s_r, s_h, k)) = 2
          /\ \E i \in RowsOfKey(s_r, s_h, k) :
                i < LastRowOf(s_r, s_h, k) /\ s_r[i] # s_r[LastRowOf(s_r, s_h, k)]
          /\ \E r \in RecordsOf(result, k) : r.s_row = LastRowOf(s_r, s_h, k) + 1

-----------------------------------------------------------------------------
(* Claims on the audits                                                    *)

\* The background a snapshot holds for a cell, by logical row and 0-based
\* column; None when the snapshot has no such row, cell or format.
SnapshotBg(fmt, row, col) ==
    IF row - 1 \in DOMAIN fmt THEN get_bg_color(fmt[row - 1], col) ELSE NoColor

\* The lines of a report with a tag for the cell at (logical row, column).
LinesFor(report, tag, row, col) ==
    {i \in DOMAIN report :
        report[i].tag = tag /\ report[i].cell = a1_cell(row - 1, col)}

\* The coloured cells (logical row, column) of the target snapshot that lie in
\* a column named by the included list and have no difference record.
StaleColored ==
    { x \in (2..(Len(t_formats) + 1)) \X {ColOf(t_h, h) : h \in Range(included_h) \cap Range(t_h)} :
        /\ ~is_white(SnapshotBg(t_formats, x[1], x[2]))
        /\ \A r \in AllRecords(result) : <<r.t_row, r.t_col>> # x }

\* C7: the diff-vs-highlight audit reports exactly one missing color for
\* each difference record whose target cell is white or absent in the
\* snapshot, and none for a record whose target cell is coloured, whatever
\* included list the comparison accepted.
C7_MissingColorPerWhiteDifference ==
    pc \in {"checked", "audited"} =>
        \A r \in AllRecords(result) :
            Cardinality(LinesFor(color_report, "MISSING COLOR", r.t_row, r.t_col))
                = IF is_white(SnapshotBg(t_formats, r.t_row, r.t_col)) THEN 1 ELSE 0

C9_CrossAuditEveryCommonKey ==
    pc = "audited" =>
        \A k \in DOMAIN result.row_mapping :
            \A h \in Range(included_h) \cap Range(s_h) \cap Range(t_h) :
                LET s_row == result.row_mapping[k][1]
                    t_row == result.row_mapping[k][2]
                    found == {i \in LinesFor(color_diff_report, "COLOR DIFF",
                                             t_row, ColOf(t_h, h)) :
                                 color_diff_report[i].h = h}
                IN  (found # {}) <=>
                        ~colors_match(SnapshotBg(s_formats, s_row, ColOf(s_h, h)),
                                      SnapshotBg(t_formats, t_row, ColOf(t_h, h)))

\* C10: colors_match is true when both colours are white (an absent colour is
\* white), false when exactly one is, and otherwise true exactly when each of
\* the three channels differs by at most the tolerance; it is symmetric.
C10_ColorsMatchByWhiteThenChannels ==
    /\ pc \in {"matched", "matched_both"} =>
          /\ (is_white(c1) /\ is_white(c2)) => matched
          /\ (is_white(c1) # is_white(c2)) => ~matched
          /\ (~is_white(c1) /\ ~is_white(c2)) =>
                (matched <=>
                    \A ch \in {"red", "green", "blue"} :
                        Abs(channel_of(c1, ch) - channel_of(c2, ch)) <= Tolerance)
          /\ (c1 = NoColor \/ c1 = Color(<<>>)) => (matched <=> is_white(c2))
    /\ pc = "matched_both" => matched_rev = matched

\* Both orders were evaluated on two colours that are not white, differ in a
\* channel by exactly the tolerance and match.
C10_Witness ==
    /\ pc = "matched_both"
    /\ ~is_white(c1) /\ ~is_white(c2)
    /\ c1 # c2
    /\ \E ch \in {"red", "green", "blue"} :
          Abs(channel_of(c1, ch) - channel_of(c2, ch)) = Tolerance
    /\ matched

-----------------------------------------------------------------------------
(* Claims on the operations of the window                                  *)

\* The operation that ended last, and a highlight or sync run that ended
\* normally after finding differences.
LastOp == IF ops = <<>> THEN "" ELSE ops[Len(ops)]

RunFound ==
    /\ LastOp \in {"highlight", "sync"}
    /\ pc = "done"
    /\ result.differences # <<>>

IsSheet == src_type = "Google Sheet"

CallsOf(call, table) ==
    Cardinality({i \in DOMAIN requests :
                    requests[i].call = call /\ requests[i].table = table})

\* The paint instructions of a plan for one cell of a table, in the base
\* colour.
PaintsAt(reqs, table, row, col) ==
    Cardinality({i \in DOMAIN reqs :
        reqs[i] = [ sheetId |-> table, startRowIndex |-> row,
                    endRowIndex |-> row + 1, startColumnIndex |-> col,
                    endColumnIndex |-> col + 1, backgroundColor |-> base_color ]})

\* The marker column's 0-based position on a side that gets the stamp, -1 on
\* a side that does not.
TgtMarkerCol ==
    IF update_marker_col # <<>> /\ update_marker_col \in Range(t_h)
    THEN ColOf(t_h, update_marker_col) ELSE -1

SrcMarkerCol ==
    IF update_marker_col # <<>> /\ IsSheet /\ update_marker_col \in Range(s_h)
    THEN ColOf(s_h, update_marker_col) ELSE -1

\* C11: an operation other than a sync run plans and issues no value write,
\* and a highlight run leaves the cells of both tables as they were loaded;
\* a sync run's target plan holds, for every difference record, exactly one
\* write <<target row - 1, target column, source's raw value>>, and its
\* writes other than marker stamps are as many as the records.
C11_ValueWritesOnlyOnSync ==
    /\ (ops # <<>> /\ LastOp # "sync") =>
          /\ value_updates = <<>> /\ src_value_updates = <<>>
          /\ CallsOf("values_batch_update", "target") = 0
          /\ CallsOf("values_batch_update", "source") = 0
    /\ (LastOp = "highlight" /\ pc = "done") =>
          /\ Tail(tgt_values) = t_r
          /\ Tail(src_values) = s_r
    /\ (LastOp = "sync" /\ pc = "done") =>
          /\ \A k \in CommonKeys : \A r \in RecordsOf(result, k) :
                /\ Occurrences(value_updates, <<r.t_row - 1, r.t_col, r.s_val>>) = 1
                /\ r.s_val = CellOf(s_r, s_h, k, r.h)
          /\ Cardinality({i \in DOMAIN value_updates :
                             value_updates[i][3] # marker_text})
                = Cardinality(AllRecords(result))

C11_Witness ==
    /\ LastOp = "sync" /\ pc = "done"
    /\ Cardinality(AllRecords(result)) >= 2
    /\ Len(value_updates) > Cardinality(AllRecords(result))
    /\ Tail(tgt_values) # t_r

\* C12: after a highlight or sync run that found differences every paint
\* instruction is a one-cell paint in the chosen colour; each difference
\* record's target cell (target row - 1, target column) is painted, once
\* unless it lies in the stamped marker column; the source plan paints each
\* record's source cell (source row - 1, source column) in the same way when
\* the source is a sheet and is empty when it is a file; and a painted cell
\* outside the marker column is the cell of a difference record.
C12_PaintPlanCoversDifferences ==
    RunFound =>
        /\ \A i \in DOMAIN tgt_color_reqs :
              LET q == tgt_color_reqs[i]
              IN  /\ PaintsAt(tgt_color_reqs, "target", q.startRowIndex,
                              q.startColumnIndex) >= 1
                  /\ q.startColumnIndex # TgtMarkerCol =>
                        \E r \in AllRecords(result) :
                            r.t_row - 1 = q.startRowIndex /\ r.t_col = q.startColumnIndex
        /\ \A r \in AllRecords(result) :
              LET n == PaintsAt(tgt_color_reqs, "target", r.t_row - 1, r.t_col)
              IN  IF r.t_col = TgtMarkerCol THEN n = 2 ELSE n = 1
        /\ IF IsSheet
           THEN /\ \A i \in DOMAIN src_color_reqs :
                      LET q == src_color_reqs[i]
                      IN  /\ PaintsAt(src_color_reqs, "source", q.startRowIndex,
                                      q.startColumnIndex) >= 1
                          /\ q.startColumnIndex # SrcMarkerCol =>
                                \E r \in AllRecords(result) :
                                    /\ r.s_row - 1 = q.startRowIndex
                                    /\ r.s_col = q.startColumnIndex
                /\ \A r \in AllRecords(result) :
                      LET n == PaintsAt(src_color_reqs, "source", r.s_row - 1, r.s_col)
                      IN  IF r.s_col = SrcMarkerCol THEN n = 2 ELSE n = 1
           ELSE src_color_reqs = <<>>

C12_Witness ==
    /\ RunFound /\ LastOp = "highlight" /\ IsSheet
    /\ Cardinality(AllRecords(result)) >= 2
    /\ \E r \in AllRecords(result) : r.s_col # r.t_col \/ r.s_row # r.t_row

\* C13: after a highlight or sync run that found differences, the target
\* plan holds one marker paint (and in a sync run one marker value write)
\* per differing row exactly when a marker column is set and is among the
\* target headers, the source plan one per differing row exactly when a
\* marker column is set, the source is a sheet and the column is among the
\* source headers; the two sides are decided separately, and the plans hold
\* nothing else beside the instructions of the difference records.
C13_MarkerStampPerSide ==
    RunFound =>
        LET recs  == Cardinality(AllRecords(result))
            rows  == Len(result.differences)
            tgt   == TgtMarkerCol # -1
            src   == SrcMarkerCol # -1
            sync  == LastOp = "sync"
        IN  /\ Len(tgt_color_reqs) = recs + (IF tgt THEN rows ELSE 0)
            /\ Len(src_color_reqs) =
                  (IF IsSheet THEN recs ELSE 0) + (IF src THEN rows ELSE 0)
            /\ Len(value_updates) =
                  IF sync THEN recs + (IF tgt THEN rows ELSE 0) ELSE 0
            /\ Len(src_value_updates) = IF sync /\ src THEN rows ELSE 0
            /\ \A i \in DOMAIN result.differences :
                  LET d == result.differences[i].diffs[1]
                  IN  /\ tgt =>
                          /\ PaintsAt(tgt_color_reqs, "target", d.t_row - 1,
                                      TgtMarkerCol) >= 1
                          /\ sync => Occurrences(value_updates,
                                        <<d.t_row - 1, TgtMarkerCol, marker_text>>) = 1
                      /\ src =>
                          /\ PaintsAt(src_color_reqs, "source", d.s_row - 1,
                                      SrcMarkerCol) >= 1
                          /\ sync => Occurrences(src_value_updates,
                                        <<d.s_row - 1, SrcMarkerCol, marker_text>>) = 1

C13_Witness ==
    /\ RunFound /\ LastOp = "sync"
    /\ SrcMarkerCol # -1 /\ TgtMarkerCol = -1
    /\ src_value_updates # <<>>

\* C14: when a sync run has ended normally and its value writes are in the
\* tables, the next operation's comparison (same key header, same checked
\* columns) finds no difference and plans and issues no write, whatever the
\* source kind and the marker column; and applying a sync run's value
\* writes to the tables once more changes no cell.
C14_RepeatedSyncConverges ==
    /\ (Len(ops) >= 2 /\ ops[Len(ops) - 1] = "sync" /\ pc = "done") =>
          /\ result.differences = <<>>
          /\ value_updates = <<>> /\ src_value_updates = <<>>
          /\ tgt_color_reqs = <<>> /\ src_color_reqs = <<>>
          /\ \A i \in DOMAIN requests : requests[i].call \notin WriteCalls
    /\ (LastOp = "sync" /\ pc = "done") =>
          /\ apply_values(tgt_values, batch_update_values_data(value_updates), 1)
                = tgt_values
          /\ apply_values(src_values, batch_update_values_data(src_value_updates), 1)
                = src_values

\* C15: in one operation each table gets at most one write request (value
\* batch or paint batch).
C15_OneWriteRequestPerTable ==
    \A table \in {"source", "target"} :
        CallsOf("values_batch_update", table) + CallsOf("batch_update", table) <= 1

-----------------------------------------------------------------------------
(* Claims on the retry wrapper                                             *)

\* An error of the transient class: an APIError whose text names 429, 500
\* or 503.
IsTransient(out) ==
    /\ out.kind = "api_error"
    /\ \E i \in 1..(Len(out.text) - 2) :
          SubSeq(out.text, i, i + 2) \in
              {<<"4", "2", "9">>, <<"5", "0", "0">>, <<"5", "0", "3">>}

\* C17: _retry_api makes at most 5 calls; a call after the first follows a
\* call that failed with a transient error, and follows a wait of
\* 2^attempt seconds plus a jitter in [0, 1), attempt counting the failed
\* calls before it from 0; a call that succeeds is the last one, and the
\* wrapper then has returned.
C17_BoundedRetryWithBackoff ==
    /\ calls <= 5
    /\ calls = Len(outcomes)
    /\ \A i \in 2..Len(outcomes) :
          /\ IsTransient(outcomes[i - 1])
          /\ sleeps[2 * i - 2].kind = "backoff"
          /\ sleeps[2 * i - 2].ms >= Pow2(i - 2) * 1000
          /\ sleeps[2 * i - 2].ms < Pow2(i - 2) * 1000 + 1000
          /\ sleeps[2 * i - 1].kind = "delay"
    /\ \A i \in DOMAIN outcomes :
          outcomes[i].kind = "ok" => i = Len(outcomes) /\ pc = "ended" /\ returned
    /\ returned => outcomes # <<>> /\ outcomes[Len(outcomes)].kind = "ok"

C17_Witness ==
    /\ pc = "ended" /\ returned /\ calls = 5
    /\ sleeps[8].ms = 8999

\* C18: a call that fails with an error outside the transient class is the
\* last call, no wait follows it, the wrapper raises that error, and the
\* client method that made the call (fetch_values, fetch_formats,
\* batch_update, batch_update_values) ends by raising, not by returning.
C18_PermanentErrorPropagates ==
    \A i \in DOMAIN outcomes :
        (outcomes[i].kind # "ok" /\ ~IsTransient(outcomes[i])) =>
            /\ i = Len(outcomes)
            /\ sleeps[Len(sleeps)].kind = "delay"
            /\ pc = "ended"
            /\ raised \in {"APIError", "Exception"}
            /\ client_end = "raised"

-----------------------------------------------------------------------------
(* Claims on the value normalizer                                          *)

\* The text of a cell with its currency symbols and then its surrounding
\* whitespace removed.
Cleaned(s) == Strip(SelectSeq(s, LAMBDA c : c \notin Money))

\* Digits, commas and dots only.
IsNumeral(u) == u # <<>> /\ \A i \in DOMAIN u : u[i] \in Digits \cup {",", "."}

\* The decimal separator of a numeral: whichever of comma and dot stands
\* rightmost, or "" when it has neither.
DecimalSep(u) ==
    IF RFind(u, ",") > RFind(u, ".") THEN ","
    ELSE IF RFind(u, ".") > -1 THEN "." ELSE ""

\* The numeral without its thousands separators.
Ungrouped(u) ==
    SelectSeq(u, LAMBDA c : c \in Digits \/ c = DecimalSep(u))

\* The numeral stands for a number: it has a digit and its decimal separator
\* occurs once at most.
Denotes(u) ==
    /\ \E i \in DOMAIN u : u[i] \in Digits
    /\ Cardinality({i \in DOMAIN u : u[i] = DecimalSep(u)}) <= 1

\* The number it stands for: the digits before the decimal separator are
\* the integer part, those after it the fraction.
NumberOf(u) ==
    LET g  == Ungrouped(u)
        at == {i \in DOMAIN g : g[i] \notin Digits}
        k  == IF at = {} THEN Len(g) + 1 ELSE CHOOSE i \in at : TRUE
        ip == SubSeq(g, 1, k - 1)
        fp == SubSeq(g, k + 1, Len(g))
    IN  Canon(DigitsToInt(ip \o fp), Len(fp))

\* The same number written in several formats.
C19_Formats ==
    { NStr(<<"1", ",", "2", "3", "4", ".", "5", "0">>), NStr(<<"1", "2", "3", "4", ".", "5">>), NStr(<<"1", "2", "3", "4", ",", "5", "0">>), NStr(<<"1", ".", "2", "3", "4", ",", "5", "0">>), NStr(<<"$", "1", ",", "2", "3", "4", ".", "5", "0">>),
      NStr(<<"$", " ", "1", "2", "3", "4", ".", "5">>), PyFloat(12345, 1) }

\* C19: a text that, without its currency symbols and surrounding
\* whitespace, is made of digits, commas and dots and stands for a number
\* normalises to that number, the rightmost of comma and dot being the
\* decimal separator (a comma alone included) and the other one dropped; an
\* int or a float normalises to the same number as a float (to 10 decimal
\* places); "1,234.50" gives 1234.5, " 123.45 " gives 123.45, 10 gives 10.0,
\* and a cell normalises to the same value as each other format of its number.
C19_NumberNormalization ==
    pc = "normalized" =>
        /\ (cell_val.t = "str" /\ IsNumeral(Cleaned(cell_val.s))
                /\ Denotes(Cleaned(cell_val.s)))
              => normalized = round10(NumberOf(Cleaned(cell_val.s)))
        /\ cell_val.t = "int" => normalized = Canon(cell_val.m, 0)
        /\ cell_val.t = "num" => normalized = round10(cell_val)
        /\ cell_val = NStr(<<"1", ",", "2", "3", "4", ".", "5", "0">>) => normalized = Canon(12345, 1)
        /\ cell_val = NStr(<<" ", "1", "2", "3", ".", "4", "5", " ">>) => normalized = Canon(12345, 2)
        /\ cell_val = PyInt(10) => normalized = Canon(10, 0)
        /\ cell_val \in C19_Formats =>
              \A other \in C19_Formats : normalize_cell_value(other) = normalized

\* A number written with a dot for the thousands and a comma for the
\* decimals has been normalised to the number it stands for.
C19_Witness ==
    /\ pc = "normalized"
    /\ cell_val = NStr(<<"1", ".", "2", "3", "4", ",", "5", "0">>)
    /\ normalized = Canon(12345, 1)

\* The five date patterns in the order the normalizer is to try them:
\* YYYY-MM-DD, DD.MM.YYYY, MM/DD/YYYY, DD/MM/YYYY, YYYY/MM/DD.
C20_Patterns ==
    << [sep |-> "-", y |-> 1, m |-> 2, d |-> 3],
       [sep |-> ".", y |-> 3, m |-> 2, d |-> 1],
       [sep |-> "/", y |-> 3, m |-> 1, d |-> 2],
       [sep |-> "/", y |-> 3, m |-> 2, d |-> 1],
       [sep |-> "/", y |-> 1, m |-> 2, d |-> 3] >>

\* The patterns a text parses under.
ParsesUnder(s) == {i \in DOMAIN C20_Patterns : strptime(Strip(s), C20_Patterns[i]).ok}

\* C20: a text that parses under one of the five patterns at least
\* normalises to the ISO date of the first pattern, in the order above, that
\* parses it: a slash date valid both ways is read month first, day first
\* applies when month first fails ("25/12/2023" gives "2023-12-25"), and a
\* text of digits and dots that is a date is a date and not a number.
C20_DateNormalization ==
    (pc = "normalized" /\ cell_val.t = "str") =>
        /\ ParsesUnder(cell_val.s) # {} =>
              LET first == CHOOSE i \in ParsesUnder(cell_val.s) :
                               \A j \in ParsesUnder(cell_val.s) : i <= j
              IN  normalized =
                      NStr(strptime(Strip(cell_val.s), C20_Patterns[first]).iso)
        /\ {3, 4} \subseteq ParsesUnder(cell_val.s) =>
              normalized = NStr(strptime(Strip(cell_val.s), C20_Patterns[3]).iso)
        /\ cell_val = NStr(<<"2", "5", "/", "1", "2", "/", "2", "0", "2", "3">>) => normalized = NStr(<<"2", "0", "2", "3", "-", "1", "2", "-", "2", "5">>)
        /\ cell_val = NStr(<<"2", "0", "2", "3", "-", "1", "2", "-", "2", "5">>) => normalized = NStr(<<"2", "0", "2", "3", "-", "1", "2", "-", "2", "5">>)
        /\ cell_val = NStr(<<"2", "5", ".", "1", "2", ".", "2", "0", "2", "3">>) => normalized = NStr(<<"2", "0", "2", "3", "-", "1", "2", "-", "2", "5">>)

\* A slash date valid month first and day first, and not the same date in
\* the two readings, has been normalised.
C20_Witness ==
    /\ pc = "normalized"
    /\ cell_val = NStr(<<"1", "/", "2", "/", "2", "0", "2", "3">>)
    /\ {3, 4} \subseteq ParsesUnder(cell_val.s)
    /\ normalized = NStr(<<"2", "0", "2", "3", "-", "0", "1", "-", "0", "2">>)

\* C21: normalising a normalised value changes nothing: once a cell has been
\* normalised and the result normalised again, the second result equals the
\* first as Python compares them.
C21_NormalizeIdempotent ==
    pc = "renormalized" => py_eq(renormalized, normalized)

-----------------------------------------------------------------------------
(* Dimming                                                                 *)

\* C22: a dim of the target that builds paint instructions builds exactly
\* one for every formatted non-white cell of the snapshot and none for any
\* other cell.  With s and v the HSV saturation and value of the cell's
\* colour, new_s = max(0, s - 0.30) and new_v the value of the tier of s
\* (s > 0.85: v - 0.18; s > 0.45: v - 0.05; s > 0.15: v + 0.05; otherwise
\* min(1, v + 1.8 * (0.15 - new_s))) clamped to [0,1], the instruction's
\* colour is pure white exactly when new_s < 0.01, and otherwise has value
\* new_v and, unless it is black, saturation new_s.
C22_DimTiers ==
    [][ (ops' = Append(ops, "dim_target") /\ tgt_color_reqs' # <<>>) =>
        \A r \in 1..Len(t_formats) :
          \A c \in 1..Len(t_formats[r].values) :
            LET cell  == t_formats[r].values[c]
                hits  == {i \in DOMAIN tgt_color_reqs' :
                            /\ tgt_color_reqs'[i].startRowIndex = r
                            /\ tgt_color_reqs'[i].startColumnIndex = c - 1}
            IN  IF t_formats[r].has_values /\ cell.has_format
                   /\ ~is_white(cell.bg)
                THEN /\ Cardinality(hits) = 1
                     /\ LET k     == tgt_color_reqs'[CHOOSE i \in hits : TRUE]
                                        .backgroundColor
                            hsv   == rgb_to_hsv(
                                        Thousandths(channel_of(cell.bg, "red")),
                                        Thousandths(channel_of(cell.bg, "green")),
                                        Thousandths(channel_of(cell.bg, "blue")))
                            s     == hsv.s
                            v     == hsv.v
                            d     == RSub(s, Rat(30, 100))
                            new_s == IF d.n < 0 THEN Rat(0, 1) ELSE d
                            raw   == IF RLess(Rat(85, 100), s)
                                     THEN RSub(v, Rat(18, 100))
                                     ELSE IF RLess(Rat(45, 100), s)
                                     THEN RSub(v, Rat(5, 100))
                                     ELSE IF RLess(Rat(15, 100), s)
                                     THEN RAdd(v, Rat(5, 100))
                                     ELSE RMin(Rat(1, 1),
                                               RAdd(v, RMul(Rat(18, 10),
                                                    RSub(Rat(15, 100), new_s))))
                            new_v == IF raw.n < 0 THEN Rat(0, 1)
                                     ELSE IF RLess(Rat(1, 1), raw) THEN Rat(1, 1)
                                     ELSE raw
                            out   == rgb_to_hsv(k.d.red, k.d.green, k.d.blue)
                        IN  /\ (k = WHITE) <=> RLess(new_s, Rat(1, 100))
                            /\ k # WHITE =>
                                 /\ out.v = new_v
                                 /\ new_v.n > 0 => out.s = new_s
                ELSE hits = {} ]_vars

\* A pure red cell (s = 1, v = 1) was dimmed to saturation 0.70 and value
\* 0.82, which is red 0.82, green and blue 0.246, and the white cells of
\* the row below got no instruction.
C22_Witness ==
    /\ ops = <<"dim_target">>
    /\ Len(tgt_color_reqs) = 2
    /\ tgt_color_reqs[1].backgroundColor
         = Color([red |-> Rat(82, 100), green |-> Rat(246, 1000),
                  blue |-> Rat(246, 1000)])
    /\ Len(t_formats) = 2
    /\ Len(t_formats[2].values) = 3
    /\ t_formats[2].values[2].bg = White
    /\ \A i \in DOMAIN tgt_color_reqs : tgt_color_reqs[i].startRowIndex = 1

-----------------------------------------------------------------------------
(* Exhausted retries                                                       *)

\* C23: once a client call has made five attempts that all failed with a
\* transient error, _retry_api has raised and not returned, the client
\* method that made the call has ended by raising, and the operation adds
\* no request after it; and _retry_api never returns without the result of
\* a call that succeeded.
C23_ExhaustedRetriesFail ==
    [][ /\ returned => outcomes # <<>> /\ outcomes[Len(outcomes)].kind = "ok"
        /\ ( /\ pc = "ended"
             /\ calls = MaxAttempts
             /\ \A i \in DOMAIN outcomes : IsTransient(outcomes[i]) )
           => /\ ~returned
              /\ raised # ""
              /\ client_end = "raised"
              /\ requests' = requests ]_vars

-----------------------------------------------------------------------------
(* Compared and missing columns                                            *)

\* C24: the compared columns of a result are exactly the headers of both
\* tables, other than the key header, that equal an entry of the included
\* list once the entry is trimmed, in ascending order and each once; the
\* columns missing in target are exactly the source headers the target
\* lacks and the columns missing in source the target headers the source
\* lacks, both in ascending order and each once.
C24_ComparedAndMissingColumns ==
    pc = "compared" =>
        LET ascending(l) == \A i \in DOMAIN l : \A j \in DOMAIN l :
                               i < j => StrLess(l[i], l[j])
        IN  /\ Range(result.compared_headers) =
                  { h \in Range(s_h) \cap Range(t_h) :
                      /\ h # key_h
                      /\ \E i \in DOMAIN included_h : Strip(included_h[i]) = h }
            /\ ascending(result.compared_headers)
            /\ Range(result.missing_columns_in_target) = Range(s_h) \ Range(t_h)
            /\ ascending(result.missing_columns_in_target)
            /\ Range(result.missing_columns_in_source) = Range(t_h) \ Range(s_h)
            /\ ascending(result.missing_columns_in_source)

\* Two columns are compared, one of them matched by an entry written with
\* surrounding blanks, in another order than the source lists them; two
\* columns are missing in source, in another order than the target lists
\* them.
C24_Witness ==
    /\ pc = "compared"
    /\ result.compared_headers = <<Ign, Val>>
    /\ s_h = <<ID, Val, Ign>>
    /\ Val \notin Range(included_h)
    /\ result.missing_columns_in_source = <<Add, New>>
    /\ t_h = <<ID, Val, New, Ign, Add>>

-----------------------------------------------------------------------------
(* Rows without a key                                                      *)

\* C25: a comparison whose key header is in both header lists does not
\* fail, whatever rows lack a key; a row whose key cell is absent or empty
\* once trimmed gives no key to the missing rows of either side, to
\* row_mapping or to the differences, and no record or pairing points at
\* such a row; the rows of the other keys keep their logical row number,
\* position among all data rows + 1.
C25_KeylessRowsExcluded ==
    (pc # "start" /\ key_h \in Range(s_h) /\ key_h \in Range(t_h)) =>
        /\ pc = "compared"
        /\ Range(result.missing_rows_in_target) = KeysOf(s_r, s_h) \ KeysOf(t_r, t_h)
        /\ Range(result.missing_rows_in_source) = KeysOf(t_r, t_h) \ KeysOf(s_r, s_h)
        /\ DOMAIN result.row_mapping = CommonKeys
        /\ \A i \in DOMAIN result.differences :
              result.differences[i].key \in CommonKeys
        /\ \A k \in DOMAIN result.row_mapping :
              /\ k # <<>>
              /\ result.row_mapping[k][1] - 1 \in DOMAIN s_r
              /\ result.row_mapping[k][2] - 1 \in DOMAIN t_r
              /\ KeyOfRow(s_r[result.row_mapping[k][1] - 1], s_h) = k
              /\ KeyOfRow(t_r[result.row_mapping[k][2] - 1], t_h) = k
        /\ \A r \in AllRecords(result) :
              /\ KeyOfRow(s_r[r.s_row - 1], s_h) # <<>>
              /\ KeyOfRow(t_r[r.t_row - 1], t_h) # <<>>

\* The source begins with a row whose key cell is empty, the target with
\* a row that ends before the key column; the rows after them are paired as
\* rows 3 and 3 and differ.
C25_Witness ==
    /\ pc = "compared"
    /\ t_h = <<Val, ID>>
    /\ Len(s_r) = 2 /\ Len(t_r) = 2
    /\ s_r[1] = <<<<>>>>
    /\ Len(t_r[1]) = 1
    /\ \E k \in DOMAIN result.row_mapping : result.row_mapping[k] = <<3, 3>>
    /\ Len(result.differences) = 1
    /\ result.missing_rows_in_target = <<>>
    /\ result.missing_rows_in_source = <<>>

-----------------------------------------------------------------------------
(* Highlight, then audit                                                   *)

-----------------------------------------------------------------------------
(* The busy flag                                                           *)

\* C27: while a handler that has emitted busy(True) is under way, the busy
\* state is true, a connection made inside it included; and when no handler
\* is under way the busy state is false.
C27_BusyWhileOperationRuns ==
    /\ pc \in {"load_source", "load_target", "working"} => busy
    /\ pc = "idle" => ~busy

-----------------------------------------------------------------------------
(* A run without differences                                               *)

\* C28: a highlight or sync run whose comparison found no difference plans
\* no value write and no paint, issues no write request, and leaves the
\* values and the backgrounds of both tables as they were, whatever the
\* marker column.
C28_NoDifferencesNoWrites ==
    [][ ( /\ \/ ops' = Append(ops, "highlight")
             \/ ops' = Append(ops, "sync")
          /\ pc' = "done"
          /\ result'.differences = <<>> )
        => /\ \A i \in DOMAIN requests' : requests'[i].call \notin WriteCalls
           /\ value_updates' = <<>> /\ src_value_updates' = <<>>
           /\ tgt_color_reqs' = <<>> /\ src_color_reqs' = <<>>
           /\ src_values' = src_values /\ tgt_values' = tgt_values
           /\ s_formats' = s_formats /\ t_formats' = t_formats ]_vars

\* A sync with a marker column that both tables have paired a row of each
\* table, found no difference and made the two loads only.
C28_Witness ==
    /\ ops = <<"sync">>
    /\ pc = "done"
    /\ result.differences = <<>>
    /\ DOMAIN result.row_mapping # {}
    /\ update_marker_col = Val
    /\ Val \in Range(s_h) /\ Val \in Range(t_h)
    /\ src_type = "Google Sheet"
    /\ requests = <<Request("fetch_values", "source"), Request("fetch_values", "target")>>

====
